---- MODULE Spec2Model ----
(***************************************************************************)
(* Model of the schedule API of the conference site                        *)
(* (src/api/src/functions/schedule.js, the v4 handlers from line 723 on):  *)
(* the CSV codec, the session table and the handlers that read and write   *)
(* it.                                                                     *)
(*                                                                         *)
(* Strings.  A JavaScript string is modelled as a sequence of tokens.  A   *)
(* token is either one of the characters the code inspects one by one      *)
(* (comma, double quote, CR, LF, single quote, '-', '+', '=', '@', space)  *)
(* or a run of other characters (letters, digits, ...) that the code only  *)
(* copies, such as "SUM(A1)" or "2026-03-15T14:00:00Z".  A run never       *)
(* starts with an inspected character.                                     *)
(***************************************************************************)
EXTENDS Integers, Sequences, FiniteSets, TLC

VARIABLES
    table,      \* the VideoSchedule table: a set of entities
    nextId,     \* number of session ids generateSessionId has handed out
    ops,        \* number of requests served so far
    last,       \* the last request served: its input, its response, the table before it
    x,          \* codec run: the field value given to escapeCsvField
    csv,        \* codec run: the text escapeCsvField returned
    fields,     \* codec run: the fields parseCsvLine returned
    phase,      \* codec run: "input", "escaped" or "parsed"
    procs,      \* concurrent run: the state of each in-flight request
    writeLog,   \* concurrent run: the entities written by updateEntity, in order
    speakers    \* the Speakers table: a set of entities

vars == <<table, nextId, ops, last, x, csv, fields, phase, procs, writeLog, speakers>>

(***************************************************************************)
(* Bounds                                                                  *)
(***************************************************************************)
\* longest field value enumerated for the codec runs
MaxLen == 3
\* number of requests in a sequential run
MaxOps == 3
\* largest number parseInt is asked to read
MaxNum == 31
\* number of PUT requests in flight in a concurrent run
NumPuts == 2
\* number of requests in a speaker run
MaxSpeakerOps == 4

(***************************************************************************)
(* Characters and string helpers                                           *)
(***************************************************************************)
DQ == "\""
SQ == "'"
COMMA == ","
LF == "\n"
CR == "\r"
SPACE == " "

\* the tokens of the enumerated field values
Chars == {"SUM(A1)", COMMA, DQ, LF, CR, SQ, "=", "-", "+", "@", SPACE}

RECURSIVE StringsUpTo(_)
StringsUpTo(n) ==
    IF n = 0 THEN {<<>>}
    ELSE LET shorter == StringsUpTo(n - 1)
         IN  shorter \cup {Append(s, c) : s \in {t \in shorter : Len(t) = n - 1}, c \in Chars}

\* String.prototype.includes for one character
Includes(str, ch) == \E i \in 1..Len(str) : str[i] = ch

\* String.prototype.startsWith for one character
StartsWith(str, ch) == Len(str) > 0 /\ str[1] = ch

\* String.prototype.charAt
CharAt(str, i) == IF i + 1 <= Len(str) THEN str[i + 1] ELSE ""

\* String.prototype.substring(1)
Substring1(str) == IF Len(str) = 0 THEN str ELSE SubSeq(str, 2, Len(str))

\* str.replace(/"/g, '""')
RECURSIVE ReplaceQuotes(_)
ReplaceQuotes(str) ==
    IF str = <<>> THEN <<>>
    ELSE (IF Head(str) = DQ THEN <<DQ, DQ>> ELSE <<Head(str)>>) \o ReplaceQuotes(Tail(str))

\* the white space String.prototype.trim removes
IsSpace(ch) == ch \in {SPACE, LF, CR}

RECURSIVE TrimStart(_)
TrimStart(str) ==
    IF str # <<>> /\ IsSpace(Head(str)) THEN TrimStart(Tail(str)) ELSE str

RECURSIVE TrimEnd(_)
TrimEnd(str) ==
    IF str # <<>> /\ IsSpace(str[Len(str)]) THEN TrimEnd(SubSeq(str, 1, Len(str) - 1)) ELSE str

\* String.prototype.trim
Trim(str) == TrimEnd(TrimStart(str))

(***************************************************************************)
(* CSV codec                                                               *)
(***************************************************************************)
formulaChars == {"-", "+", "=", "@"}

startsWithFormula(str) == \E ch \in formulaChars : StartsWith(str, ch)

\* escapeCsvField, for a string argument
escapeCsvFieldNoPrefix(str) ==
    IF startsWithFormula(str) \/ Includes(str, COMMA) \/ Includes(str, DQ)
          \/ Includes(str, LF) \/ Includes(str, CR)
    THEN <<DQ>> \o ReplaceQuotes(str) \o <<DQ>>
    ELSE str

escapeCsvField(str) ==
    IF startsWithFormula(str) \/ Includes(str, COMMA) \/ Includes(str, DQ)
          \/ Includes(str, LF) \/ Includes(str, CR)
    THEN <<DQ>> \o ReplaceQuotes(IF startsWithFormula(str) THEN <<SQ>> \o str ELSE str) \o <<DQ>>
    ELSE str

\* stripExcelQuote
stripExcelQuote(value) ==
    IF value # <<>> /\ StartsWith(value, SQ) /\ (\E ch \in formulaChars : CharAt(value, 1) = ch)
    THEN Substring1(value)
    ELSE value

\* the body of the while loop of parseCsvLine at position k (0-based): it runs
\* when the index i has reached k, and not at a position that i += 2 skipped
parseCsvLineStep(line, st, k) ==
    IF st.i # k THEN st
    ELSE LET char == line[k + 1]
         IN  IF st.inQuotes
             THEN IF char = DQ
                  THEN IF k + 1 < Len(line) /\ line[k + 2] = DQ
                       THEN [st EXCEPT !.current = Append(@, DQ), !.i = k + 2]
                       ELSE [st EXCEPT !.inQuotes = FALSE, !.i = k + 1]
                  ELSE [st EXCEPT !.current = Append(@, char), !.i = k + 1]
             ELSE IF char = DQ
                  THEN [st EXCEPT !.inQuotes = TRUE, !.i = k + 1]
                  ELSE IF char = COMMA
                       THEN [st EXCEPT !.fields = Append(@, stripExcelQuote(st.current)),
                                       !.current = <<>>, !.i = k + 1]
                       ELSE [st EXCEPT !.current = Append(@, char), !.i = k + 1]

\* the loop of parseCsvLine over the positions lo..hi, in order, from state st
\* (the state after the first half of the positions is computed once, then the
\* second half runs from it)
RECURSIVE parseCsvLineLoop(_, _, _, _)
parseCsvLineLoop(line, st, lo, hi) ==
    IF lo > hi THEN st
    ELSE IF lo = hi THEN parseCsvLineStep(line, st, lo)
    ELSE LET mid == (lo + hi) \div 2
         IN  CHOOSE out \in {parseCsvLineLoop(line, half, mid + 1, hi) :
                                half \in {parseCsvLineLoop(line, st, lo, mid)}} : TRUE

\* parseCsvLine
parseCsvLine(line) ==
    LET st == parseCsvLineLoop(line,
                   [fields |-> <<>>, current |-> <<>>, inQuotes |-> FALSE, i |-> 0],
                   0, Len(line) - 1)
    IN  Append(st.fields, stripExcelQuote(st.current))

\* if (currentRow.trim()) rows.push(currentRow)
pushRow(rows, currentRow) == IF Trim(currentRow) # <<>> THEN Append(rows, currentRow) ELSE rows

\* the body of the for loop of parseCsv at position k (0-based): it runs when
\* the index i has reached k, and not at the LF that i++ skipped after a CR
parseCsvStep(content, st, k) ==
    IF st.i # k THEN st
    ELSE LET char == content[k + 1]
             next == IF k + 1 < Len(content) THEN content[k + 2] ELSE ""
         IN  IF char = DQ
             THEN [st EXCEPT !.inQuotes = ~@, !.currentRow = Append(@, char), !.i = k + 1]
             ELSE IF (char = LF \/ (char = CR /\ next = LF)) /\ ~st.inQuotes
                  THEN [st EXCEPT !.rows = pushRow(@, st.currentRow), !.currentRow = <<>>,
                                  !.i = IF char = CR THEN k + 2 ELSE k + 1]
                  ELSE IF char = CR /\ ~st.inQuotes
                       THEN [st EXCEPT !.rows = pushRow(@, st.currentRow),
                                       !.currentRow = <<>>, !.i = k + 1]
                       ELSE [st EXCEPT !.currentRow = Append(@, char), !.i = k + 1]

\* the loop of parseCsv over the positions lo..hi, in order, from state st
RECURSIVE parseCsvLoop(_, _, _, _)
parseCsvLoop(content, st, lo, hi) ==
    IF lo > hi THEN st
    ELSE IF lo = hi THEN parseCsvStep(content, st, lo)
    ELSE LET mid == (lo + hi) \div 2
         IN  CHOOSE out \in {parseCsvLoop(content, half, mid + 1, hi) :
                                half \in {parseCsvLoop(content, st, lo, mid)}} : TRUE

\* parseCsv
parseCsv(content) ==
    LET st == parseCsvLoop(content,
                   [rows |-> <<>>, currentRow |-> <<>>, inQuotes |-> FALSE, i |-> 0],
                   0, Len(content) - 1)
    IN  pushRow(st.rows, st.currentRow)

(***************************************************************************)
(* Codec runs: a field value is escaped, then the text is parsed           *)
(***************************************************************************)
NoBody == [none |-> TRUE]

\* no storage call of the request throws
NoFault == [at |-> 0, message |-> ""]

\* what `last` records of a request; items is the list a GET returned or the
\* row keys an extraction replaced, in order; calls are the storage calls the
\* handler made, fault the storage call that threw, thrown whether the handler
\* threw to its caller
Served(op, id, body, text, before, status, created, updated, errors) ==
    [op |-> op, id |-> id, body |-> body, text |-> text, before |-> before,
     status |-> status, created |-> created, updated |-> updated, errors |-> errors,
     items |-> <<>>, jsonBody |-> NoBody, calls |-> <<>>, fault |-> NoFault,
     thrown |-> FALSE]

NoRequest == Served("none", <<>>, NoBody, <<>>, {}, 0, 0, 0, <<>>)

CodecIdle ==
    /\ table = {}
    /\ nextId = 0
    /\ ops = 0
    /\ last = NoRequest
    /\ procs = <<>>
    /\ writeLog = <<>>
    /\ speakers = {}

InitCsv ==
    /\ x \in StringsUpTo(MaxLen)
    /\ csv = <<>>
    /\ fields = <<>>
    /\ phase = "input"
    /\ CodecIdle

Escape ==
    /\ phase = "input"
    /\ csv' = escapeCsvField(x)
    /\ phase' = "escaped"
    /\ UNCHANGED <<x, fields, table, nextId, ops, last, procs, writeLog, speakers>>

Parse ==
    /\ phase = "escaped"
    /\ fields' = parseCsvLine(csv)
    /\ phase' = "parsed"
    /\ UNCHANGED <<x, csv, table, nextId, ops, last, procs, writeLog, speakers>>

NextCsv == Escape \/ Parse

SpecCsv == InitCsv /\ [][NextCsv]_vars

(***************************************************************************)
(* JavaScript values                                                       *)
(***************************************************************************)
\* the value undefined, where a string is expected (no string is this sequence)
Undefined == <<"<undefined>">>

\* a || b for string operands: undefined and '' are falsy
OrElse(a, b) == IF a = Undefined \/ a = <<>> THEN b ELSE a

\* `${v}` in a template literal
Interpolate(v) == IF v = Undefined THEN <<"undefined">> ELSE v

\* v?.trim()
OptTrim(v) == IF v = Undefined THEN Undefined ELSE Trim(v)

\* String(n) for an integer n
NumberToString(n) == IF n < 0 THEN <<"-", ToString(-n)>> ELSE <<ToString(n)>>

\* the digit runs parseInt is asked to read
IsDigits(tok) == \E n \in 0..MaxNum : ToString(n) = tok

DigitsValue(tok) == CHOOSE n \in 0..MaxNum : ToString(n) = tok

\* parseInt(v) || 0: leading white space and a sign are skipped, a digit run is
\* read, anything else is NaN
ParseIntOrZero(v) ==
    IF v = Undefined THEN 0
    ELSE LET s == TrimStart(v)
             signed == s # <<>> /\ s[1] \in {"-", "+"}
             digits == IF signed THEN Tail(s) ELSE s
         IN  IF digits # <<>> /\ IsDigits(digits[1])
             THEN IF signed /\ s[1] = "-" THEN 0 - DigitsValue(digits[1])
                  ELSE DigitsValue(digits[1])
             ELSE 0

\* the timestamps new Date() parses in this model, with the UTC date that
\* toISOString().split('T')[0] gives and the position of the instant in time;
\* the last one is written with an offset: 23:30 on 2026-03-15 in New York is
\* 03:30 on 2026-03-16 in UTC
KnownTimes ==
    [t \in {"2026-03-15T14:00:00Z", "2026-03-15T16:00:00Z", "2026-03-16T09:30:00Z",
            "2026-03-15T23:30:00-04:00"} |->
        CASE t = "2026-03-15T14:00:00Z" -> [date |-> "2026-03-15", ms |-> 1]
          [] t = "2026-03-15T16:00:00Z" -> [date |-> "2026-03-15", ms |-> 2]
          [] t = "2026-03-16T09:30:00Z" -> [date |-> "2026-03-16", ms |-> 4]
          [] t = "2026-03-15T23:30:00-04:00" -> [date |-> "2026-03-16", ms |-> 3]]

T1 == <<"2026-03-15T14:00:00Z">>
T2 == <<"2026-03-15T16:00:00Z">>
T3 == <<"2026-03-16T09:30:00Z">>
T4 == <<"2026-03-15T23:30:00-04:00">>
NotADate == <<"not-a-date">>

\* !isNaN(new Date(v).getTime())
IsValidDate(v) == Len(v) = 1 /\ v[1] \in DOMAIN KnownTimes

\* the date as it is written in the timestamp
IsoDateAsWritten(v) == IF v = T4 THEN <<"2026-03-15">> ELSE <<KnownTimes[v[1]].date>>

\* new Date(v).toISOString().split('T')[0], for a valid date
IsoDate(v) == <<KnownTimes[v[1]].date>>

\* new Date(v).getTime(), for a valid date
GetTime(v) == KnownTimes[v[1]].ms

\* a share link in place of the watch url
WatchUrlShort(videoId) == <<"https://youtu.be/">> \o Interpolate(videoId)

\* the default url of a session
WatchUrl(videoId) == <<"https://www.youtube.com/watch?v=">> \o Interpolate(videoId)

(***************************************************************************)
(* The table store (the @azure/data-tables client the handlers call)       *)
(***************************************************************************)
SameKey(e, f) == e.partitionKey = f.partitionKey /\ e.rowKey = f.rowKey

HasKey(t, pk, rk) == \E e \in t : e.partitionKey = pk /\ e.rowKey = rk

\* client.createEntity: fails when the key pair exists
createEntity(t, entity) ==
    IF HasKey(t, entity.partitionKey, entity.rowKey)
    THEN [ok |-> FALSE, t |-> t]
    ELSE [ok |-> TRUE, t |-> t \cup {entity}]

\* a replace that inserts the row when the key pair does not exist
upsertEntity(t, entity) ==
    [ok |-> TRUE, t |-> {e \in t : ~SameKey(e, entity)} \cup {entity}]

\* client.updateEntity(entity, "Replace"): fails when the key pair does not exist
updateEntity(t, entity) ==
    IF HasKey(t, entity.partitionKey, entity.rowKey)
    THEN [ok |-> TRUE, t |-> {e \in t : ~SameKey(e, entity)} \cup {entity}]
    ELSE [ok |-> FALSE, t |-> t]

\* client.deleteEntity: fails when the key pair does not exist
deleteEntityWholePartition(t, pk, rk) ==
    IF HasKey(t, pk, rk)
    THEN [ok |-> TRUE, t |-> {e \in t : e.partitionKey # pk}]
    ELSE [ok |-> FALSE, t |-> t]

deleteEntityNotDone(t, pk, rk) ==
    IF HasKey(t, pk, rk)
    THEN [ok |-> TRUE, t |-> t]
    ELSE [ok |-> FALSE, t |-> t]

deleteEntity(t, pk, rk) ==
    IF HasKey(t, pk, rk)
    THEN [ok |-> TRUE, t |-> {e \in t : ~(e.partitionKey = pk /\ e.rowKey = rk)}]
    ELSE [ok |-> FALSE, t |-> t]

\* the partition keys of the known dates, in the order of a table scan
Partitions == <<<<"2026-03-15">>, <<"2026-03-16">>>>

PartitionRank(pk) == CHOOSE n \in DOMAIN Partitions : Partitions[n] = pk

\* where a scan for rowKey === id stops: listEntities returns the rows in key
\* order, so with several matches it is the one of the earliest partition
FindByRowKey(t, id) ==
    {e \in t : e.rowKey = id /\
        \A f \in t : f.rowKey = id => PartitionRank(e.partitionKey) <= PartitionRank(f.partitionKey)}

RowKeys(t) == {e.rowKey : e \in t}

\* generateSessionId: the n-th id handed out (time stamp and random suffix make
\* each id new)
generateSessionId(n) == <<"sess_", ToString(n)>>

(***************************************************************************)
(* Session handlers, each computed from the table it finds                 *)
(***************************************************************************)
\* body.k of a parsed JSON body, for a string field
Get(body, k) == IF k \in DOMAIN body THEN body[k] ELSE Undefined

\* addScheduleItem: n ids were handed out before the call
addScheduleItem(t, n, body) ==
    LET sessionId == generateSessionId(n + 1)
        startTime == Get(body, "startTime")
        failed == [t |-> t, status |-> 500, id |-> sessionId,
                   jsonBody |-> [error |-> "Failed to add schedule item"]]
    IN  IF ~IsValidDate(startTime)
        THEN failed    \* toISOString throws RangeError
        ELSE LET entity == [partitionKey |-> IsoDate(startTime),
                            rowKey |-> sessionId,
                            videoId |-> Get(body, "videoId"),
                            title |-> Get(body, "title"),
                            description |-> OrElse(Get(body, "description"), <<>>),
                            url |-> OrElse(Get(body, "url"), WatchUrl(Get(body, "videoId"))),
                            startTime |-> startTime,
                            duration |-> IF "duration" \in DOMAIN body THEN body.duration ELSE 0]
                 made == createEntity(t, entity)
             IN  IF made.ok
                 THEN [t |-> made.t, status |-> 201, id |-> sessionId,
                       jsonBody |-> [id |-> sessionId, sessionId |-> sessionId]]
                 ELSE failed

\* the entity updateScheduleItem builds from the row it found and the body
updatedEntityOverwriting(existingEntity, id, body) ==
    [partitionKey |-> existingEntity.partitionKey,
     rowKey |-> id,
     videoId |-> Get(body, "videoId"),
     title |-> OrElse(Get(body, "title"), existingEntity.title),
     description |-> IF "description" \in DOMAIN body THEN body.description ELSE <<>>,
     url |-> OrElse(Get(body, "url"), existingEntity.url),
     startTime |-> OrElse(Get(body, "startTime"), existingEntity.startTime),
     duration |-> IF "duration" \in DOMAIN body THEN body.duration ELSE 0]

updatedEntity(existingEntity, id, body) ==
    [partitionKey |-> existingEntity.partitionKey,
     rowKey |-> id,
     videoId |-> OrElse(Get(body, "videoId"), existingEntity.videoId),
     title |-> OrElse(Get(body, "title"), existingEntity.title),
     description |-> IF "description" \in DOMAIN body THEN body.description
                     ELSE existingEntity.description,
     url |-> OrElse(Get(body, "url"), existingEntity.url),
     startTime |-> OrElse(Get(body, "startTime"), existingEntity.startTime),
     duration |-> IF "duration" \in DOMAIN body THEN body.duration
                  ELSE existingEntity.duration]

\* an update that moves the row to the partition of its new startTime
replaceFoundRelocating(t, existingEntity, id, body) ==
    LET entity == updatedEntity(existingEntity, id, body)
        moved == IF IsValidDate(entity.startTime)
                 THEN [entity EXCEPT !.partitionKey = IsoDate(entity.startTime)]
                 ELSE entity
    IN  IF moved.partitionKey = existingEntity.partitionKey
        THEN updateEntity(t, moved)
        ELSE createEntity(deleteEntity(t, existingEntity.partitionKey, id).t, moved)

\* a replace that is refused when the row changed after it was read
replaceFoundIfUnchanged(t, existingEntity, id, body) ==
    IF existingEntity \in t
    THEN updateEntity(t, updatedEntity(existingEntity, id, body))
    ELSE [ok |-> FALSE, t |-> t]

\* client.updateEntity(updatedEntity, "Replace") for the row the scan found: the
\* replace is unconditional (no etag is sent)
replaceFound(t, existingEntity, id, body) ==
    updateEntity(t, updatedEntity(existingEntity, id, body))

\* updateScheduleItem
updateScheduleItem(t, id, body) ==
    LET found == FindByRowKey(t, id)
    IN  IF found = {}
        THEN [t |-> t, status |-> 404]
        ELSE LET existingEntity == CHOOSE e \in found : TRUE
                 put == replaceFound(t, existingEntity, id, body)
             IN  IF put.ok THEN [t |-> put.t, status |-> 200]
                 ELSE [t |-> t, status |-> 500]

\* deleteScheduleItem
deleteScheduleItem(t, id) ==
    LET found == FindByRowKey(t, id)
    IN  IF found = {}
        THEN [t |-> t, status |-> 404]
        ELSE LET existingEntity == CHOOSE e \in found : TRUE
                 del == deleteEntity(t, existingEntity.partitionKey, id)
             IN  IF del.ok THEN [t |-> del.t, status |-> 200]
                 ELSE [t |-> t, status |-> 500]

(***************************************************************************)
(* CSV export and import                                                   *)
(***************************************************************************)
\* Array.prototype.join(',') of a list of strings
RECURSIVE JoinComma(_)
JoinComma(list) ==
    IF list = <<>> THEN <<>>
    ELSE IF Len(list) = 1 THEN list[1]
    ELSE list[1] \o <<COMMA>> \o JoinComma(Tail(list))

\* the column names of the export
exportHeaders == <<"sessionId", "videoId", "title", "description", "url", "startTime", "duration">>

\* escapeCsvField for any value: null and undefined give ''
escapeCsvValue(value) == IF value = Undefined THEN <<>> ELSE escapeCsvField(value)

\* one line of the export: the fields of an entity in column order
exportRow(e) ==
    JoinComma(<<escapeCsvValue(e.rowKey),
                escapeCsvValue(e.videoId),
                escapeCsvValue(e.title),
                escapeCsvValue(OrElse(e.description, <<>>)),
                escapeCsvValue(e.url),
                escapeCsvValue(e.startTime),
                escapeCsvValue(NumberToString(e.duration))>>) \o <<LF>>

\* the orders entities.sort((a, b) => new Date(a.startTime) - new Date(b.startTime))
\* can leave the rows in: ascending when every startTime parses; with an
\* unparsable startTime the comparison is NaN and the order is not determined
Orderings(t) ==
    LET n == Cardinality(t)
        perms == {p \in [1..n -> t] : \A i, j \in 1..n : i # j => p[i] # p[j]}
    IN  IF \A e \in t : IsValidDate(e.startTime)
        THEN {p \in perms : \A i, j \in 1..n :
                 i < j => GetTime(p[i].startTime) <= GetTime(p[j].startTime)}
        ELSE perms

\* the public shape getSchedule projects a row to
scheduleItem(e) ==
    [id |-> e.rowKey, sessionId |-> e.rowKey, videoId |-> e.videoId, title |-> e.title,
     description |-> e.description, url |-> e.url, startTime |-> e.startTime,
     duration |-> e.duration]

\* the schedule arrays getSchedule can return for a table
getSchedule(t) == {[i \in DOMAIN p |-> scheduleItem(p[i])] : p \in Orderings(t)}

RECURSIVE exportRows(_)
exportRows(list) == IF list = <<>> THEN <<>> ELSE exportRow(Head(list)) \o exportRows(Tail(list))

\* the body exportScheduleAsCsv returns for the rows in the order given
exportCsv(list) ==
    JoinComma([i \in DOMAIN exportHeaders |-> <<exportHeaders[i]>>]) \o <<LF>> \o exportRows(list)

\* the bodies exportScheduleAsCsv can return for a table
ExportTexts(t) == {exportCsv(p) : p \in Orderings(t)}

\* String.prototype.toLowerCase: the runs with upper-case letters that occur
toLowerCaseRun(tok) ==
    CASE tok \in {"sessionId", "SessionId", "SESSIONID"} -> "sessionid"
      [] tok \in {"videoId", "VideoId", "VIDEOID"} -> "videoid"
      [] tok \in {"Title", "TITLE"} -> "title"
      [] tok \in {"startTime", "StartTime", "STARTTIME"} -> "starttime"
      [] tok \in {"Description", "DESCRIPTION"} -> "description"
      [] tok \in {"URL", "Url"} -> "url"
      [] tok \in {"Duration", "DURATION"} -> "duration"
      [] tok \in {"Jane", "JANE"} -> "jane"
      [] tok \in {"Doe", "DOE"} -> "doe"
      [] tok = "Jean" -> "jean"
      [] tok = "Luc" -> "luc"
      [] tok = "Picard" -> "picard"
      [] tok = "Al" -> "al"
      [] tok = "Wu" -> "wu"
      [] tok = "CTO" -> "cto"
      [] tok = "Other" -> "other"
      [] tok = "Speaker:" -> "speaker:"
      [] tok = "Speakers:" -> "speakers:"
      [] OTHER -> tok

toLowerCase(str) == [i \in DOMAIN str |-> toLowerCaseRun(str[i])]

\* record[name] after headers.forEach((header, index) => record[header] =
\* values[index] || ''): the last column of that name wins
Field(headers, values, name) ==
    LET cols == {i \in DOMAIN headers : headers[i] = <<name>>}
    IN  IF cols = {} THEN Undefined
        ELSE LET index == CHOOSE i \in cols : \A j \in cols : j <= i
             IN  IF index <= Len(values) THEN values[index] ELSE <<>>

\* the row loop body of importScheduleFromCsv after values = parseCsvLine(rows[i]):
\* r holds the table, the ids handed out and the results so far; i is the
\* 0-based index of the row
importValues(r, headers, values, i) ==
    LET sessionid == OptTrim(Field(headers, values, "sessionid"))
        fresh == sessionid = Undefined \/ sessionid = <<>>
        n == IF fresh THEN r.n + 1 ELSE r.n
        sessionId == IF fresh THEN generateSessionId(r.n + 1) ELSE sessionid
        starttime == Field(headers, values, "starttime")
        videoid == OptTrim(Field(headers, values, "videoid"))
        failed(t, kind) == [r EXCEPT !.t = t, !.n = n,
                                     !.errors = Append(@, [row |-> i + 1, kind |-> kind])]
    IN  IF ~IsValidDate(starttime)
        THEN failed(r.t, "Invalid startTime")
        ELSE LET partitionKey == IsoDate(starttime)
                 entity == [partitionKey |-> partitionKey,
                            rowKey |-> sessionId,
                            videoId |-> OrElse(videoid, <<>>),
                            title |-> OrElse(OptTrim(Field(headers, values, "title")), <<>>),
                            description |-> OrElse(Field(headers, values, "description"), <<>>),
                            url |-> OrElse(OptTrim(Field(headers, values, "url")), WatchUrl(videoid)),
                            startTime |-> OrElse(OptTrim(starttime), <<>>),
                            duration |-> ParseIntOrZero(Field(headers, values, "duration"))]
                 found == FindByRowKey(r.t, sessionId)
             IN  IF found = {}
                 THEN LET made == createEntity(r.t, entity)
                      IN  IF made.ok
                          THEN [r EXCEPT !.t = made.t, !.n = n, !.created = @ + 1]
                          ELSE failed(r.t, "storage")
                 ELSE LET existing == CHOOSE e \in found : TRUE
                      IN  IF existing.partitionKey # partitionKey
                          THEN LET del == deleteEntity(r.t, existing.partitionKey, existing.rowKey)
                                   made == createEntity(del.t, entity)
                               IN  IF ~del.ok THEN failed(r.t, "storage")
                                   ELSE IF ~made.ok THEN failed(del.t, "storage")
                                   ELSE [r EXCEPT !.t = made.t, !.n = n, !.updated = @ + 1]
                          ELSE LET put == updateEntity(r.t, entity)
                               IN  IF put.ok
                                   THEN [r EXCEPT !.t = put.t, !.n = n, !.updated = @ + 1]
                                   ELSE failed(r.t, "storage")

\* one pass of the row loop: the line is parsed once, then the row is handled
importRow(r, headers, line, i) ==
    CHOOSE out \in {importValues(r, headers, values, i) : values \in {parseCsvLine(line)}} : TRUE

\* a row loop that gives up at the first row it cannot import
RECURSIVE importRowsFromAborting(_, _, _, _)
importRowsFromAborting(r, headers, rows, i) ==
    IF i >= Len(rows) \/ r.errors # <<>> THEN r
    ELSE CHOOSE out \in {importRowsFromAborting(after, headers, rows, i + 1) :
                            after \in {importRow(r, headers, rows[i + 1], i)}} : TRUE

\* the row loop: rows[i + 1] is the row of index i; each pass starts from the
\* results of the pass before
RECURSIVE importRowsFrom(_, _, _, _)
importRowsFrom(r, headers, rows, i) ==
    IF i >= Len(rows) THEN r
    ELSE CHOOSE out \in {importRowsFrom(after, headers, rows, i + 1) :
                            after \in {importRow(r, headers, rows[i + 1], i)}} : TRUE

requiredColumns == <<"videoid", "title", "starttime">>

\* importScheduleFromCsv after rows = parseCsv(body) and the headers are read
importRows(t, n, rows, headers) ==
    IF \E c \in DOMAIN requiredColumns :
          \A k \in DOMAIN headers : headers[k] # <<requiredColumns[c]>>
    THEN [t |-> t, n |-> n, status |-> 400, created |-> 0, updated |-> 0, errors |-> <<>>]
    ELSE LET r == importRowsFrom([t |-> t, n |-> n, created |-> 0, updated |-> 0,
                                  errors |-> <<>>], headers, rows, 1)
         IN  [t |-> r.t, n |-> r.n, status |-> 200, created |-> r.created,
              updated |-> r.updated, errors |-> r.errors]

\* headers read as they are spelled in the file
headersOfCaseSensitive(headerRow) == [k \in DOMAIN headerRow |-> Trim(headerRow[k])]

\* headerRow.map(h => h.trim().toLowerCase())
headersOf(headerRow) == [k \in DOMAIN headerRow |-> toLowerCase(Trim(headerRow[k]))]

\* importScheduleFromCsv: n ids were handed out before the call
importScheduleFromCsv(t, n, body) ==
    CHOOSE out \in
        { IF Len(rows) < 2
          THEN [t |-> t, n |-> n, status |-> 400, created |-> 0, updated |-> 0, errors |-> <<>>]
          ELSE CHOOSE res \in {importRows(t, n, rows, headers) :
                                  headers \in {headersOf(parseCsvLine(rows[1]))}} : TRUE
          : rows \in {parseCsv(body)} } : TRUE

(***************************************************************************)
(* Requests of the sequential runs                                         *)
(***************************************************************************)
\* bodies of POST /api/schedule
CreateBodies ==
    { [videoId |-> <<"abc123">>, title |-> <<"Keynote">>, startTime |-> T1],
      [videoId |-> <<"xyz789">>, title |-> <<"=", "SUM(A1)">>,
       description |-> <<"Line", SPACE, "one", COMMA, LF, DQ, "two", DQ>>,
       url |-> <<"https://example.org/talk">>, startTime |-> T3, duration |-> 30],
      [title |-> <<"No", SPACE, "video">>, startTime |-> T2],
      [videoId |-> <<"abc123">>, startTime |-> T1],
      [videoId |-> <<"abc123">>, title |-> <<"No", SPACE, "start">>],
      [videoId |-> <<"abc123">>, title |-> <<"Bad", SPACE, "start">>, startTime |-> NotADate],
      [videoId |-> <<"late01">>, title |-> <<"Late", SPACE, "show">>, startTime |-> T4] }

\* bodies of PUT /api/schedule/{id}
UpdateBodies ==
    { [title |-> <<"New", SPACE, "Title">>],
      [startTime |-> T3],
      [startTime |-> NotADate],
      [videoId |-> <<>>, title |-> <<>>, duration |-> 0],
      [description |-> <<>>, duration |-> 45],
      [videoId |-> <<"new456">>, title |-> <<"All", SPACE, "new">>, description |-> <<"d">>,
       url |-> <<"https://example.org/new">>, startTime |-> T2, duration |-> 20] }

\* an id no row has
MissingId == <<"sess_missing">>

\* a CSV field as a spreadsheet or an editor writes it (RFC 4180, no formula
\* protection)
plainCsvField(str) ==
    IF Includes(str, COMMA) \/ Includes(str, DQ) \/ Includes(str, LF) \/ Includes(str, CR)
    THEN <<DQ>> \o ReplaceQuotes(str) \o <<DQ>>
    ELSE str

RECURSIVE sheetLines(_, _)
sheetLines(lines, eol) ==
    IF lines = <<>> THEN <<>>
    ELSE JoinComma([k \in DOMAIN Head(lines) |-> plainCsvField(Head(lines)[k])]) \o eol
         \o sheetLines(Tail(lines), eol)

\* the text of an uploaded file: a header line and the data lines
SheetText(sheet) == sheetLines(<<sheet.header>> \o sheet.rows, sheet.eol)

FullHeader == [i \in DOMAIN exportHeaders |-> <<exportHeaders[i]>>]

\* the files uploaded to POST /api/schedule?action=import
\* an unparsable startTime before and after a good row
SheetBadRows ==
    [header |-> FullHeader, eol |-> <<LF>>,
     rows |-> << <<<<"imp_1">>, <<"vidA">>, <<"Bad", SPACE, "row">>, <<>>, <<>>, NotADate, <<"10">>>>,
                 <<<<"imp_2">>, <<"vidB">>, <<"Good", SPACE, "row">>, <<>>, <<>>, T1, <<"20">>>>,
                 <<<<"imp_3">>, <<"vidC">>, <<"No", SPACE, "time">>, <<>>, <<>>, <<>>, <<"5">>>> >>]

\* an upper-case header without a sessionId column, CRLF line ends
SheetUpperCase ==
    [header |-> << <<"VIDEOID">>, <<"Title">>, <<"STARTTIME">> >>, eol |-> <<CR, LF>>,
     rows |-> << <<<<"vidD">>, <<SPACE, "Padded", SPACE>>, T3>> >>]

\* the first id handed out, on 2026-03-16; a new id twice, on two days
SheetMove ==
    [header |-> FullHeader, eol |-> <<LF>>,
     rows |-> << <<generateSessionId(1), <<"vidM">>, <<"Moved">>, <<"a", COMMA, "b">>, <<>>, T3, <<"15">>>>,
                 <<<<"imp_2">>, <<"vidE">>, <<"First">>, <<>>, <<>>, T2, <<"7">>>>,
                 <<<<"imp_2">>, <<"vidE">>, <<"Second">>, <<>>, <<>>, T3, <<"8">>>> >>]

\* the first id handed out, on 2026-03-15
SheetSameDay ==
    [header |-> FullHeader, eol |-> <<LF>>,
     rows |-> << <<generateSessionId(1), <<"vidS">>, <<"Same", SPACE, "day">>, <<>>, <<>>, T2, <<"5">>>> >>]

\* a header without title
SheetNoTitle ==
    [header |-> << <<"sessionId">>, <<"videoId">>, <<"startTime">> >>, eol |-> <<LF>>,
     rows |-> << <<<<"imp_4">>, <<"vidF">>, T1>> >>]

\* a header and no data row
SheetHeaderOnly == [header |-> FullHeader, eol |-> <<LF>>, rows |-> <<>>]

\* an id that starts with a single quote and '=', after white space
SheetQuotedId ==
    [header |-> FullHeader, eol |-> <<LF>>,
     rows |-> << <<<<SPACE, SQ, "=", "a">>, <<"vidQ">>, <<"Quoted">>, <<>>, <<>>, T1, <<"0">>>> >>]

\* two new sessions, one with a start written with an offset, late in the
\* evening in New York
SheetLateEvening ==
    [header |-> FullHeader, eol |-> <<LF>>,
     rows |-> << <<<<"imp_5">>, <<"vidL">>, <<"Late">>, <<>>, <<>>, T4, <<"60">>>>,
                 <<<<"imp_6">>, <<"vidN">>, <<"Noon">>, <<>>, <<>>, T1, <<"45">>>> >>]

Sheets ==
    {SheetBadRows, SheetUpperCase, SheetMove, SheetSameDay, SheetNoTitle, SheetHeaderOnly,
     SheetQuotedId, SheetLateEvening}

\* the bodies that can be uploaded when n ids have been handed out: a file names
\* a generated id only after generateSessionId has handed it out (every id it
\* hands out is new), and the body can be empty
ImportBodies(n) ==
    {SheetText(sh) : sh \in {f \in Sheets : f \in {SheetMove, SheetSameDay} => n >= 1}}
        \cup {<<>>}

(***************************************************************************)
(* Sequential runs: requests are served one after the other                *)
(***************************************************************************)
CodecOff ==
    /\ x = <<>>
    /\ csv = <<>>
    /\ fields = <<>>
    /\ phase = "off"

Init ==
    /\ table = {}
    /\ nextId = 0
    /\ ops = 0
    /\ last = NoRequest
    /\ procs = <<>>
    /\ writeLog = <<>>
    /\ speakers = {}
    /\ CodecOff

SequentialFrame == UNCHANGED <<x, csv, fields, phase, procs, writeLog, speakers>>

\* POST /api/schedule
Create ==
    /\ ops < MaxOps
    /\ \E body \in CreateBodies :
          \E r \in {addScheduleItem(table, nextId, body)} :
              /\ table' = r.t
              /\ nextId' = nextId + 1
              /\ last' = [Served("create", r.id, body, <<>>, table, r.status, 0, 0, <<>>)
                             EXCEPT !.jsonBody = r.jsonBody]
    /\ ops' = ops + 1
    /\ SequentialFrame

\* PUT /api/schedule/{id}
Update ==
    /\ ops < MaxOps
    /\ \E id \in RowKeys(table) \cup {MissingId}, body \in UpdateBodies :
          \E r \in {updateScheduleItem(table, id, body)} :
              /\ table' = r.t
              /\ last' = Served("update", id, body, <<>>, table, r.status, 0, 0, <<>>)
    /\ ops' = ops + 1
    /\ UNCHANGED nextId
    /\ SequentialFrame

\* DELETE /api/schedule/{id}
Delete ==
    /\ ops < MaxOps
    /\ \E id \in RowKeys(table) \cup {MissingId} :
          \E r \in {deleteScheduleItem(table, id)} :
              /\ table' = r.t
              /\ last' = Served("delete", id, NoBody, <<>>, table, r.status, 0, 0, <<>>)
    /\ ops' = ops + 1
    /\ UNCHANGED nextId
    /\ SequentialFrame

\* GET /api/schedule?format=csv: a read, which leaves the table as it is; a
\* run is a number of requests that write and then one read
Export ==
    /\ ops <= MaxOps
    /\ \E text \in ExportTexts(table) :
          last' = Served("export", <<>>, NoBody, text, table, 200, 0, 0, <<>>)
    /\ ops' = MaxOps + 1
    /\ UNCHANGED <<table, nextId>>
    /\ SequentialFrame

\* POST /api/schedule?action=import, with an uploaded file or with the text an
\* export of the table has just returned
Import ==
    /\ ops < MaxOps
    /\ \E body \in ImportBodies(nextId) \cup ExportTexts(table) :
          \E r \in {importScheduleFromCsv(table, nextId, body)} :
              /\ table' = r.t
              /\ nextId' = r.n
              /\ last' = Served("import", <<>>, NoBody, body, table, r.status,
                                r.created, r.updated, r.errors)
    /\ ops' = ops + 1
    /\ SequentialFrame

\* GET /api/schedule: a read, which leaves the table as it is; a run is a
\* number of requests that write and then one read
List ==
    /\ ops <= MaxOps
    /\ \E schedule \in getSchedule(table) :
          last' = [Served("list", <<>>, NoBody, <<>>, table, 200, 0, 0, <<>>)
                      EXCEPT !.items = schedule]
    /\ ops' = MaxOps + 1
    /\ UNCHANGED <<table, nextId>>
    /\ SequentialFrame

Next == Create \/ Update \/ Delete \/ Export \/ Import \/ List

Spec == Init /\ [][Next]_vars

(***************************************************************************)
(* Sequential runs over field values at the edges: a negative duration,    *)
(* white space around a value, a single quote before a formula character   *)
(***************************************************************************)
\* number of requests in a run
MaxEdgeOps == 3

\* bodies of POST /api/schedule with videoId, title and startTime
EdgeCreateBodies ==
    { [videoId |-> <<"abc123">>, title |-> <<"Keynote">>, startTime |-> T1, duration |-> 30],
      [videoId |-> <<"neg001">>, title |-> <<"Negative">>, startTime |-> T2, duration |-> 0 - 5],
      [videoId |-> <<"pad001">>, title |-> <<SPACE, "Padded", SPACE>>, startTime |-> T3],
      [videoId |-> <<"quo001">>, title |-> <<SQ, "=", "1">>,
       description |-> <<SPACE, "kept", SPACE>>, startTime |-> T1, duration |-> 10] }

\* bodies of PUT /api/schedule/{id}
EdgeUpdateBodies ==
    { [duration |-> 0 - 5],
      [title |-> <<"Retitled">>, duration |-> 25],
      [title |-> <<"Trailing", SPACE>>],
      [description |-> <<SQ, "-", "note">>] }

\* an uploaded file with a negative duration
SheetNegative ==
    [header |-> FullHeader, eol |-> <<LF>>,
     rows |-> << <<<<"imp_7">>, <<"vidG">>, <<"Below", SPACE, "zero">>, <<>>, <<>>, T1, <<"-", "5">>>> >>]

EdgeCreate ==
    /\ ops < MaxEdgeOps
    /\ \E body \in EdgeCreateBodies :
          \E r \in {addScheduleItem(table, nextId, body)} :
              /\ table' = r.t
              /\ nextId' = nextId + 1
              /\ last' = [Served("create", r.id, body, <<>>, table, r.status, 0, 0, <<>>)
                             EXCEPT !.jsonBody = r.jsonBody]
    /\ ops' = ops + 1
    /\ SequentialFrame

EdgeUpdate ==
    /\ ops < MaxEdgeOps
    /\ \E id \in RowKeys(table), body \in EdgeUpdateBodies :
          \E r \in {updateScheduleItem(table, id, body)} :
              /\ table' = r.t
              /\ last' = Served("update", id, body, <<>>, table, r.status, 0, 0, <<>>)
    /\ ops' = ops + 1
    /\ UNCHANGED nextId
    /\ SequentialFrame

\* POST /api/schedule?action=import with the uploaded file
EdgeImport ==
    /\ ops < MaxEdgeOps
    /\ \E body \in {SheetText(SheetNegative)} :
          \E r \in {importScheduleFromCsv(table, nextId, body)} :
              /\ table' = r.t
              /\ nextId' = r.n
              /\ last' = Served("import", <<>>, NoBody, body, table, r.status,
                                r.created, r.updated, r.errors)
    /\ ops' = ops + 1
    /\ SequentialFrame

\* GET /api/schedule?format=csv, then POST /api/schedule?action=import with
\* the text the export returned, unmodified
ExportThenImport ==
    /\ ops < MaxEdgeOps
    /\ table # {}
    /\ \E body \in ExportTexts(table) :
          \E r \in {importScheduleFromCsv(table, nextId, body)} :
              /\ table' = r.t
              /\ nextId' = r.n
              /\ last' = Served("reimport", <<>>, NoBody, body, table, r.status,
                                r.created, r.updated, r.errors)
    /\ ops' = ops + 1
    /\ SequentialFrame

NextEdge == EdgeCreate \/ EdgeUpdate \/ EdgeImport \/ ExportThenImport

SpecEdge == Init /\ [][NextEdge]_vars

(***************************************************************************)
(* The playlist import. A Date is a record: valid or not, and the seconds  *)
(* from 2026-03-15T00:00:00Z when it is valid                              *)
(***************************************************************************)
\* number of items in a playlist
MaxItems == 3

\* body.sessionDuration || 60
DefaultSessionDuration == 60

InvalidDate == [valid |-> FALSE, time |-> 0]

LateStart == <<"2026-03-15T23:30:00Z">>

\* new Date(v) for the startDate strings of the requests
NewDate(v) ==
    CASE v = T1 -> [valid |-> TRUE, time |-> 14 * 3600]
      [] v = LateStart -> [valid |-> TRUE, time |-> 23 * 3600 + 30 * 60]
      [] OTHER -> InvalidDate

Pad2(n) == IF n < 10 THEN "0" \o ToString(n) ELSE ToString(n)

\* the UTC date of the day that is `day` days after 2026-03-15
DateString(day) == "2026-03-" \o Pad2(15 + day)

\* toISOString() of a valid Date and toISOString().split('T')[0]
toISOString(d) ==
    LET second == d.time % 86400
    IN  <<DateString(d.time \div 86400), "T", Pad2(second \div 3600), ":",
          Pad2((second % 3600) \div 60), ":", Pad2(second % 60), ".000Z">>

isoDatePart(d) == <<DateString(d.time \div 86400)>>

\* the seconds of an ISO 8601 duration PT..H..M..S, given as its parts
durationSeconds(duration) ==
    (IF "H" \in DOMAIN duration THEN duration.H * 3600 ELSE 0)
        + (IF "M" \in DOMAIN duration THEN duration.M * 60 ELSE 0)
        + (IF "S" \in DOMAIN duration THEN duration.S ELSE 0)

\* videoDurations[videoId] || 0
videoDuration(videosData, videoId) ==
    IF videoId \in DOMAIN videosData THEN durationSeconds(videosData[videoId]) ELSE 0

skippedTitles == {<<"Private video">>, <<"Deleted video">>}

\* one pass of the loop over playlistItems; failAt is the createEntity call
\* that throws, 0 when none does
playlistItem(r, item, sessionDuration, videosData, failAt) ==
    LET failed(kind) == [r EXCEPT !.n = r.n + 1,
                                  !.errors = Append(@, [title |-> item.title, kind |-> kind])]
    IN  IF item.title \in skippedTitles
        THEN [r EXCEPT !.skipped = @ + 1]
        ELSE IF ~r.currentTime.valid
        THEN failed("Invalid time value")    \* toISOString throws RangeError
        ELSE LET duration == videoDuration(videosData, item.videoId)
                 entity == [partitionKey |-> isoDatePart(r.currentTime),
                            rowKey |-> generateSessionId(r.n + 1),
                            videoId |-> item.videoId,
                            title |-> item.title,
                            description |-> OrElse(Get(item, "description"), <<>>),
                            url |-> WatchUrl(item.videoId),
                            startTime |-> toISOString(r.currentTime),
                            duration |-> duration]
                 made == createEntity(r.t, entity)
                 nextGap == IF duration > 0 THEN duration + (sessionDuration * 60)
                            ELSE sessionDuration * 60
             IN  IF r.calls + 1 = failAt \/ ~made.ok
                 THEN [failed("storage") EXCEPT !.calls = @ + 1]
                 ELSE [r EXCEPT !.t = made.t, !.n = r.n + 1, !.calls = @ + 1,
                                !.created = @ + 1,
                                !.videos = Append(@, [title |-> item.title,
                                                      videoId |-> item.videoId,
                                                      startTime |-> entity.startTime]),
                                !.currentTime = [valid |-> TRUE,
                                                 time |-> r.currentTime.time + nextGap]]

RECURSIVE playlistItemsFrom(_, _, _, _, _)
playlistItemsFrom(r, items, sessionDuration, videosData, failAt) ==
    IF items = <<>> THEN r
    ELSE playlistItemsFrom(
             CHOOSE out \in {playlistItem(r, Head(items), sessionDuration, videosData, failAt)} : TRUE,
             Tail(items), sessionDuration, videosData, failAt)

\* importPlaylist: now is what new Date() returns, playlistItems and
\* videosData are what the two YouTube requests return
importPlaylist(t, n, body, now, playlistItems, videosData, failAt) ==
    LET startDate == IF "startDate" \in DOMAIN body /\ body.startDate # <<>>
                     THEN NewDate(body.startDate) ELSE now
        sessionDuration == IF "sessionDuration" \in DOMAIN body /\ body.sessionDuration # 0
                           THEN body.sessionDuration ELSE DefaultSessionDuration
        refused == [t |-> t, n |-> n, status |-> 400, created |-> 0, skipped |-> 0,
                    errors |-> <<>>, videos |-> <<>>]
        r == playlistItemsFrom([t |-> t, n |-> n, created |-> 0, skipped |-> 0, errors |-> <<>>,
                                videos |-> <<>>, currentTime |-> startDate, calls |-> 0],
                               playlistItems, sessionDuration, videosData, failAt)
    IN  IF Get(body, "playlistId") \in {Undefined, <<>>} THEN refused
        ELSE IF Get(body, "apiKey") \in {Undefined, <<>>} THEN refused
        ELSE [t |-> r.t, n |-> r.n, status |-> 200, created |-> r.created,
              skipped |-> r.skipped, errors |-> r.errors, videos |-> r.videos]

\* bodies of POST /api/schedule?action=playlist
PlaylistBodies ==
    { [playlistId |-> <<"PL1">>, apiKey |-> <<"key">>, startDate |-> T1],
      [playlistId |-> <<"PL1">>, apiKey |-> <<"key">>, startDate |-> LateStart,
       sessionDuration |-> 30],
      [playlistId |-> <<"PL1">>, apiKey |-> <<"key">>, sessionDuration |-> 0],
      [playlistId |-> <<"PL1">>, apiKey |-> <<"key">>, startDate |-> T1,
       sessionDuration |-> 0 - 120],
      [playlistId |-> <<"PL1">>, apiKey |-> <<"key">>, startDate |-> NotADate,
       sessionDuration |-> 30],
      [apiKey |-> <<"key">>, startDate |-> T1],
      [playlistId |-> <<"PL1">>, startDate |-> T1] }

\* the items of the playlist PL1, in the shape of the YouTube response
PlaylistVideos ==
    { [title |-> <<"Talk A">>, videoId |-> <<"vidA">>, description |-> <<"About A">>],
      [title |-> <<"Talk B">>, videoId |-> <<"vidB">>],
      [title |-> <<"Private video">>, videoId |-> <<"vidP">>],
      [title |-> <<"Deleted video">>, videoId |-> <<"vidD">>] }

\* the videos the second request returns: vidA lasts PT1H2M3S, vidB PT10M, and
\* a private or deleted video is not returned
VideosData == (<<"vidA">> :> [H |-> 1, M |-> 2, S |-> 3]) @@ (<<"vidB">> :> [M |-> 10])

\* the same, when the second request returns nothing for vidB
VideosDataShort == (<<"vidA">> :> [H |-> 1, M |-> 2, S |-> 3])

Playlists == UNION {[1..k -> PlaylistVideos] : k \in 0..MaxItems}

\* POST /api/schedule?action=playlist on the empty table
ImportPlaylist ==
    /\ ops = 0
    /\ \E body \in PlaylistBodies, playlistItems \in Playlists,
          videosData \in {VideosData, VideosDataShort}, failAt \in {0, 2} :
          \E r \in {importPlaylist(table, nextId, body, [valid |-> TRUE, time |-> 20 * 3600],
                                   playlistItems, videosData, failAt)} :
              /\ table' = r.t
              /\ nextId' = r.n
              /\ last' = [Served("playlist", <<>>, body, <<>>, table, r.status, r.created, 0,
                                 r.errors)
                             EXCEPT !.items = playlistItems,
                                    !.jsonBody = [created |-> r.created, skipped |-> r.skipped,
                                                  errors |-> r.errors, videos |-> r.videos],
                                    !.calls = videosData,
                                    !.fault = [at |-> failAt, message |-> "storage"]]
    /\ ops' = 1
    /\ SequentialFrame

NextPlaylist == ImportPlaylist

SpecPlaylist == Init /\ [][NextPlaylist]_vars

(***************************************************************************)
(* Concurrent runs: PUT requests for one session, interleaved at each await *)
(***************************************************************************)
\* the tables the requests find: one or two sessions, created through the API
StartTables ==
    {addScheduleItem({}, 0, b).t : b \in CreateBodies}
        \cup {addScheduleItem(addScheduleItem({}, 0, b).t, 1, c).t : b, c \in CreateBodies}

NoEntity == [none |-> TRUE]

InitConc ==
    /\ table \in StartTables \ {{}}
    /\ nextId = 2
    /\ ops = 0
    /\ last = NoRequest
    /\ \E id \in RowKeys(table) :
          procs \in [1..NumPuts ->
                       {[op |-> "update", id |-> id, body |-> b, pc |-> "scan",
                         existingEntity |-> NoEntity, status |-> 0] : b \in UpdateBodies}]
    /\ writeLog = <<>>
    /\ speakers = {}
    /\ CodecOff

ConcurrentFrame == UNCHANGED <<nextId, ops, last, x, csv, fields, phase, speakers>>

\* updateScheduleItem up to its first write: the scan for the row of the id
UpdateScan(p) ==
    /\ procs[p].op = "update"
    /\ procs[p].pc = "scan"
    /\ \E found \in {FindByRowKey(table, procs[p].id)} :
          IF found = {}
          THEN procs' = [procs EXCEPT ![p].pc = "done", ![p].status = 404]
          ELSE procs' = [procs EXCEPT ![p].pc = "write",
                                      ![p].existingEntity = CHOOSE e \in found : TRUE]
    /\ UNCHANGED <<table, writeLog>>
    /\ ConcurrentFrame

\* updateScheduleItem from its write to its response
UpdateWrite(p) ==
    /\ procs[p].op = "update"
    /\ procs[p].pc = "write"
    /\ \E put \in {replaceFound(table, procs[p].existingEntity, procs[p].id, procs[p].body)} :
          /\ table' = put.t
          /\ procs' = [procs EXCEPT ![p].pc = "done",
                                    ![p].status = IF put.ok THEN 200 ELSE 500]
          /\ writeLog' = IF put.ok
                         THEN Append(writeLog, updatedEntity(procs[p].existingEntity,
                                                             procs[p].id, procs[p].body))
                         ELSE writeLog
    /\ ConcurrentFrame

NextConc ==
    \/ \E p \in DOMAIN procs : UpdateScan(p)
    \/ \E p \in DOMAIN procs : UpdateWrite(p)

SpecConc == InitConc /\ [][NextConc]_vars

(***************************************************************************)
(* Races: two requests of any kind run concurrently on one session table   *)
(***************************************************************************)
\* the session the table holds when the race starts
RaceTable == addScheduleItem({}, 0, [videoId |-> <<"abc123">>, title |-> <<"Keynote">>,
                                     startTime |-> T1]).t

\* the entity importScheduleFromCsv builds from the cells of a data row
importedEntity(values) ==
    CHOOSE e \in importValues([t |-> {}, n |-> 0, created |-> 0, updated |-> 0,
                               errors |-> <<>>], headersOf(FullHeader), values, 1).t : TRUE

\* the data rows of the files imported in a race: the stored session and a new
\* one, each on 2026-03-15 and on 2026-03-16
RaceRows ==
    {<<id, <<"vidR">>, <<"Raced">>, <<>>, <<>>, startTime, <<"15">>>> :
        id \in {generateSessionId(1), <<"imp_9">>}, startTime \in {T1, T3}}

Racing(op, id, body) ==
    [op |-> op, id |-> id, body |-> body, pc |-> "scan", existingEntity |-> NoEntity,
     status |-> 0]

\* the requests that can race
RaceRequests ==
    {Racing("update", generateSessionId(1), b) :
        b \in {[title |-> <<"New", SPACE, "Title">>], [startTime |-> T3]}}
        \cup {Racing("delete", generateSessionId(1), NoBody)}
        \cup {Racing("import", importedEntity(row).rowKey, importedEntity(row)) : row \in RaceRows}
        \cup {Racing("create", <<>>, [videoId |-> <<"xyz789">>, title |-> <<"Second">>,
                                      startTime |-> T1])}

\* the two requests of a race
Racers == {1, 2}

InitRace ==
    /\ table = RaceTable
    /\ nextId = 1
    /\ ops = 0
    /\ last = NoRequest
    /\ procs \in [Racers -> RaceRequests]
    /\ writeLog = <<>>
    /\ speakers = {}
    /\ CodecOff

\* addScheduleItem: its one storage call
CreateWrite(p) ==
    /\ procs[p].op = "create"
    /\ procs[p].pc = "scan"
    /\ \E r \in {addScheduleItem(table, nextId, procs[p].body)} :
          /\ table' = r.t
          /\ procs' = [procs EXCEPT ![p].pc = "done", ![p].status = r.status, ![p].id = r.id]
    /\ nextId' = nextId + 1
    /\ UNCHANGED <<writeLog, ops, last, x, csv, fields, phase, speakers>>

\* deleteScheduleItem up to its write: the scan for the row of the id
DeleteScan(p) ==
    /\ procs[p].op = "delete"
    /\ procs[p].pc = "scan"
    /\ \E found \in {FindByRowKey(table, procs[p].id)} :
          IF found = {}
          THEN procs' = [procs EXCEPT ![p].pc = "done", ![p].status = 404]
          ELSE procs' = [procs EXCEPT ![p].pc = "write",
                                      ![p].existingEntity = CHOOSE e \in found : TRUE]
    /\ UNCHANGED <<table, writeLog>>
    /\ ConcurrentFrame

\* deleteScheduleItem from its write to its response; a delete that was done
\* is noted in the log of the writes
DeleteWrite(p) ==
    /\ procs[p].op = "delete"
    /\ procs[p].pc = "write"
    /\ \E del \in {deleteEntity(table, procs[p].existingEntity.partitionKey, procs[p].id)} :
          /\ table' = del.t
          /\ procs' = [procs EXCEPT ![p].pc = "done",
                                    ![p].status = IF del.ok THEN 200 ELSE 500]
          /\ writeLog' = IF del.ok THEN Append(writeLog, [deleted |-> procs[p].id])
                         ELSE writeLog
    /\ ConcurrentFrame

\* the row loop of importScheduleFromCsv for a file of one data row: the scan
\* for the row of the sessionId
ImportScan(p) ==
    /\ procs[p].op = "import"
    /\ procs[p].pc = "scan"
    /\ \E found \in {FindByRowKey(table, procs[p].id)} :
          IF found = {}
          THEN procs' = [procs EXCEPT ![p].pc = "create"]
          ELSE \E existing \in {CHOOSE e \in found : TRUE} :
                  procs' = [procs EXCEPT
                               ![p].existingEntity = existing,
                               ![p].pc = IF existing.partitionKey # procs[p].body.partitionKey
                                         THEN "moveDelete" ELSE "replace"]
    /\ UNCHANGED <<table, writeLog>>
    /\ ConcurrentFrame

\* the row loop of importScheduleFromCsv: one storage call after the scan; a
\* call that throws ends the row with an entry in errors, and the response is
\* 200 either way
ImportWrite(p) ==
    /\ procs[p].op = "import"
    /\ procs[p].pc \in {"create", "moveDelete", "moveCreate", "replace"}
    /\ \E call \in { CASE procs[p].pc = "moveDelete" ->
                            deleteEntity(table, procs[p].existingEntity.partitionKey,
                                         procs[p].existingEntity.rowKey)
                       [] procs[p].pc = "replace" -> updateEntity(table, procs[p].body)
                       [] OTHER -> createEntity(table, procs[p].body) } :
          /\ table' = call.t
          /\ procs' = [procs EXCEPT
                          ![p].pc = IF call.ok /\ procs[p].pc = "moveDelete"
                                    THEN "moveCreate" ELSE "done",
                          ![p].status = IF call.ok /\ procs[p].pc = "moveDelete" THEN 0
                                        ELSE 200]
    /\ UNCHANGED writeLog
    /\ ConcurrentFrame

NextRace ==
    \/ \E p \in DOMAIN procs : UpdateScan(p)
    \/ \E p \in DOMAIN procs : UpdateWrite(p)
    \/ \E p \in DOMAIN procs : DeleteScan(p)
    \/ \E p \in DOMAIN procs : DeleteWrite(p)
    \/ \E p \in DOMAIN procs : ImportScan(p)
    \/ \E p \in DOMAIN procs : ImportWrite(p)
    \/ \E p \in DOMAIN procs : CreateWrite(p)

SpecRace == InitRace /\ [][NextRace]_vars

(***************************************************************************)
(* Imports with storage faults: files of one data row are imported one     *)
(* after the other, and any storage call of the row loop can throw         *)
(***************************************************************************)
\* number of imports in a run
MaxImports == 3

ImportRequests == {Racing("import", importedEntity(row).rowKey, importedEntity(row)) : row \in RaceRows}

\* `last` holds the table the import found
ImportStarted(request, t) == Served("import", request.id, NoBody, <<>>, t, 0, 0, 0, <<>>)

InitImportFaults ==
    /\ table = RaceTable
    /\ nextId = 1
    /\ ops = 1
    /\ \E request \in ImportRequests :
          /\ procs = <<request>>
          /\ last = ImportStarted(request, RaceTable)
    /\ writeLog = <<>>
    /\ speakers = {}
    /\ CodecOff

\* a storage call of the row loop throws: nothing is written, catch (rowError)
\* pushes an entry to errors and the loop goes on to the end of the file
ImportCallThrows(p) ==
    /\ procs[p].op = "import"
    /\ procs[p].pc # "done"
    /\ procs' = [procs EXCEPT ![p].pc = "done", ![p].status = 200]
    /\ writeLog' = Append(writeLog, [threw |-> procs[p].pc])
    /\ UNCHANGED table
    /\ ConcurrentFrame

\* the next file is uploaded when the import before it has answered
NextImport ==
    /\ ops < MaxImports
    /\ procs[1].pc = "done"
    /\ \E request \in ImportRequests :
          /\ procs' = <<request>>
          /\ last' = ImportStarted(request, table)
    /\ ops' = ops + 1
    /\ writeLog' = <<>>
    /\ UNCHANGED <<table, nextId, x, csv, fields, phase, speakers>>

NextImportFaults ==
    \/ ImportScan(1)
    \/ ImportWrite(1)
    \/ ImportCallThrows(1)
    \/ NextImport

SpecImportFaults == InitImportFaults /\ [][NextImportFaults]_vars

(***************************************************************************)
(* Speakers API: the text mining of extractSpeakers                        *)
(***************************************************************************)
\* a description is a sequence of tokens: a label, a word (a run of letters), a
\* number prefix, "http", or one character
SpeakerLabels == {"Speaker:", "Speakers:", "speaker:", "speakers:"}

Words ==
    {"Jane", "JANE", "jane", "Doe", "DOE", "doe", "Jean", "jean", "Luc", "luc", "Picard",
     "picard", "Al", "al", "Wu", "wu", "CTO", "cto", "Other", "other", "text", "and"}

NumberPrefixes == {"1.", "2."}

Dashes == {"-"}

\* the length of a token, counted up to 3: the code compares lengths with 2 only
TokenLength(tok) ==
    CASE tok \in {SPACE, LF, CR, COMMA, "-", "(", ")", "@", "#"} -> 1
      [] tok \in {"Al", "al", "Wu", "wu", "1.", "2."} -> 2
      [] OTHER -> 3

\* str.length > 2
RECURSIVE LongerThan(_, _)
LongerThan(str, n) ==
    IF n < 0 THEN TRUE
    ELSE IF str = <<>> THEN FALSE
    ELSE LongerThan(Tail(str), n - TokenLength(Head(str)))

\* [A-Z#...] under the i flag, at the start of a line: a letter of either case
\* or '#' (the emoji of the class are not among the tokens)
StartsLikeHeading(tok) == tok \in Words \cup SpeakerLabels \cup {"http", "#"}

\* the last position of the line that holds position k
RECURSIVE lineEnd(_, _)
lineEnd(d, k) == IF k < Len(d) /\ d[k + 1] # LF THEN lineEnd(d, k + 1) ELSE k

\* \s* from position k: the first position that is not white space, 0 when
\* only white space is left
RECURSIVE skipSpace(_, _)
skipSpace(d, k) ==
    IF k > Len(d) THEN 0 ELSE IF IsSpace(d[k]) THEN skipSpace(d, k + 1) ELSE k

\* (?:\n(?![A-Z#...])[^\n]+)* from the end e of a line: the end of the last
\* continuation line
RECURSIVE continuationEnd(_, _)
continuationEnd(d, e) ==
    IF e + 2 <= Len(d) /\ d[e + 1] = LF /\ d[e + 2] # LF /\ ~StartsLikeHeading(d[e + 2])
    THEN continuationEnd(d, lineEnd(d, e + 2))
    ELSE e

\* description.match(/Speakers?:\s*(...)/gi) from position i on, each match
\* already as its namesSection: match.replace(/Speakers?:\s*/i, '').trim()
RECURSIVE namesSections(_, _)
namesSections(d, i) ==
    IF i > Len(d) THEN <<>>
    ELSE IF d[i] \notin SpeakerLabels THEN namesSections(d, i + 1)
    ELSE LET q == skipSpace(d, i + 1)
         IN  IF q = 0 THEN <<>>
             ELSE LET e == continuationEnd(d, lineEnd(d, q))
                  IN  <<Trim(SubSeq(d, q, e))>> \o namesSections(d, e + 1)

\* namesSection.split(/[,\n]/)
RECURSIVE splitNames(_)
splitNames(str) ==
    LET cuts == {k \in DOMAIN str : str[k] \in {COMMA, LF}}
    IN  IF cuts = {} THEN <<str>>
        ELSE LET k == CHOOSE c \in cuts : \A o \in cuts : c <= o
             IN  <<SubSeq(str, 1, k - 1)>> \o splitNames(SubSeq(str, k + 1, Len(str)))

\* .filter(n => n && n.length > 2 && !n.includes('http') && !n.includes('@'))
keepsCandidate(n) ==
    n # <<>> /\ LongerThan(n, 2) /\ ~Includes(n, "http") /\ ~Includes(n, "@")

\* name.replace(/^\d+\.\s*/, '')
stripNumberPrefix(name) ==
    IF name # <<>> /\ name[1] \in NumberPrefixes THEN TrimStart(Tail(name)) ELSE name

\* name.replace(/\s*[-–—]\s*.*$/, ''): everything from the first dash on, and
\* the white space before it
stripRole(name) ==
    LET at == {k \in DOMAIN name : name[k] \in Dashes}
    IN  IF at = {} THEN name
        ELSE TrimEnd(SubSeq(name, 1, (CHOOSE k \in at : \A o \in at : k <= o) - 1))

\* name.replace(/\s*\(.*\)/, ''): from the first '(' that has a ')' after it
\* to the last ')', and the white space before it
stripAside(name) ==
    LET opens == {a \in DOMAIN name : name[a] = "(" /\ \E b \in DOMAIN name : b > a /\ name[b] = ")"}
    IN  IF opens = {} THEN name
        ELSE LET a == CHOOSE o \in opens : \A p \in opens : o <= p
                 b == CHOOSE c \in DOMAIN name :
                          name[c] = ")" /\ \A o \in DOMAIN name : name[o] = ")" => o <= c
             IN  TrimEnd(SubSeq(name, 1, a - 1)) \o SubSeq(name, b + 1, Len(name))

cleanName(name) == Trim(stripAside(stripRole(stripNumberPrefix(name))))

\* cleanName && cleanName.length > 2 && cleanName.split(' ').length <= 4
acceptsName(clean) ==
    /\ clean # <<>>
    /\ LongerThan(clean, 2)
    /\ Cardinality({k \in DOMAIN clean : clean[k] = SPACE}) + 1 <= 4

\* the clean names one namesSection gives, in order
sectionNames(section) ==
    LET names == splitNames(section)
        cleaned == [k \in DOMAIN names |->
                       IF keepsCandidate(Trim(names[k])) THEN cleanName(Trim(names[k])) ELSE <<>>]
        Accepted(c) == acceptsName(c)
    IN  SelectSeq(cleaned, Accepted)

RECURSIVE concatAll(_)
concatAll(lists) == IF lists = <<>> THEN <<>> ELSE Head(lists) \o concatAll(Tail(lists))

\* the names a description mentions, one entry per mention, in order
mentionedNames(description) ==
    LET sections == namesSections(description, 1)
    IN  concatAll([k \in DOMAIN sections |-> sectionNames(sections[k])])

(***************************************************************************)
(* Speakers API: the handlers                                              *)
(***************************************************************************)
\* JSON.stringify of a list of ids, and JSON.parse of what it returned
JSONstringify(list) == [json |-> list]

JSONparse(text) == text.json

\* the elements of seq at the positions of keep, in order
PickSeq(seq, keep) ==
    [k \in 1..Cardinality(keep) |->
        seq[CHOOSE i \in keep : Cardinality({j \in keep : j <= i}) = k]]

\* [...new Set(list)]: each value once, at the place of its first occurrence
SetOrder(list) ==
    PickSeq(list, {i \in DOMAIN list : \A j \in 1..(i - 1) : list[j] # list[i]})

\* a merge that keeps every occurrence
mergeSessionIdsAppending(existingSessionIds, sessionIds) == existingSessionIds \o sessionIds

\* a merge that keeps the newly found ids only
mergeSessionIdsReplacing(existingSessionIds, sessionIds) == SetOrder(sessionIds)

\* [...new Set([...existingSessionIds, ...sessionIds])]
mergeSessionIds(existingSessionIds, sessionIds) == SetOrder(existingSessionIds \o sessionIds)

\* generateSpeakerId: the slug of the name and the n-th random suffix
generateSpeakerId(name, n) ==
    LET lower == toLowerCase(name)
        Kept(tok) == tok \notin {COMMA, DQ, SQ, "(", ")", "@", "#", "=", "+"}
        slug == SelectSeq(lower, Kept)
    IN  [k \in DOMAIN slug |-> IF IsSpace(slug[k]) THEN "-" ELSE slug[k]]
            \o <<"-", ToString(n)>>

\* the fields of a speaker besides name and sessionIds
SpeakerTexts == {"title", "company", "bio", "headshotFile", "linkedin", "twitter"}

\* addSpeaker: n ids were handed out before the call
addSpeaker(sp, n, body) ==
    IF "name" \notin DOMAIN body
    THEN [sp |-> sp, status |-> 500, id |-> <<>>]    \* undefined.toLowerCase() throws
    ELSE LET speakerId == generateSpeakerId(body.name, n + 1)
             entity == [partitionKey |-> <<"speaker">>,
                        rowKey |-> speakerId,
                        name |-> body.name,
                        title |-> OrElse(Get(body, "title"), <<>>),
                        company |-> OrElse(Get(body, "company"), <<>>),
                        bio |-> OrElse(Get(body, "bio"), <<>>),
                        headshotFile |-> OrElse(Get(body, "headshotFile"), <<>>),
                        linkedin |-> OrElse(Get(body, "linkedin"), <<>>),
                        twitter |-> OrElse(Get(body, "twitter"), <<>>),
                        sessionIds |-> JSONstringify(IF "sessionIds" \in DOMAIN body
                                                     THEN body.sessionIds ELSE <<>>)]
             made == createEntity(sp, entity)
         IN  IF made.ok THEN [sp |-> made.t, status |-> 201, id |-> speakerId]
             ELSE [sp |-> sp, status |-> 500, id |-> speakerId]

\* updateSpeaker
updateSpeaker(sp, id, body) ==
    LET found == {e \in sp : e.rowKey = id}
    IN  IF found = {}
        THEN [sp |-> sp, status |-> 404]
        ELSE LET existingEntity == CHOOSE e \in found : TRUE
                 Given(k) == IF k \in DOMAIN body THEN body[k] ELSE existingEntity[k]
                 updated == [partitionKey |-> existingEntity.partitionKey,
                             rowKey |-> id,
                             name |-> OrElse(Get(body, "name"), existingEntity.name),
                             title |-> Given("title"),
                             company |-> Given("company"),
                             bio |-> Given("bio"),
                             headshotFile |-> Given("headshotFile"),
                             linkedin |-> Given("linkedin"),
                             twitter |-> Given("twitter"),
                             sessionIds |-> IF "sessionIds" \in DOMAIN body
                                            THEN JSONstringify(body.sessionIds)
                                            ELSE existingEntity.sessionIds]
                 put == updateEntity(sp, updated)
             IN  IF put.ok THEN [sp |-> put.t, status |-> 200]
                 ELSE [sp |-> sp, status |-> 500]

\* deleteSpeaker
deleteSpeaker(sp, id) ==
    LET found == {e \in sp : e.rowKey = id}
    IN  IF found = {}
        THEN [sp |-> sp, status |-> 404]
        ELSE LET entity == CHOOSE e \in found : TRUE
                 del == deleteEntity(sp, entity.partitionKey, entity.rowKey)
             IN  IF del.ok THEN [sp |-> del.t, status |-> 200]
                 ELSE [sp |-> sp, status |-> 500]

\* one entry per mention of a name in the description of a session
sessionMentions(session) ==
    LET names == mentionedNames(OrElse(session.description, <<>>))
    IN  [k \in DOMAIN names |->
            [lowerName |-> toLowerCase(names[k]), displayName |-> names[k],
             id |-> session.rowKey]]

\* extractedSpeakers and speakerSessions after the scan of the sessions: one
\* entry per lower-cased name, in the order of first mention, with the name as
\* first written and the id of the session of every mention
extractedSpeakers(sessions) ==
    LET mentions == concatAll([k \in DOMAIN sessions |-> sessionMentions(sessions[k])])
        firsts == PickSeq(mentions, {i \in DOMAIN mentions :
                                        \A j \in 1..(i - 1) :
                                            mentions[j].lowerName # mentions[i].lowerName})
        IdsOf(lowerName) ==
            LET Same(m) == m.lowerName = lowerName
                same == SelectSeq(mentions, Same)
            IN  [i \in DOMAIN same |-> same[i].id]
    IN  [k \in DOMAIN firsts |->
            [lowerName |-> firsts[k].lowerName, displayName |-> firsts[k].displayName,
             sessionIds |-> IdsOf(firsts[k].lowerName)]]

\* one pass of the create/update loop of extractSpeakers
extractOne(r, existingSpeakers, entry) ==
    IF entry.lowerName \in DOMAIN existingSpeakers
    THEN LET existing == existingSpeakers[entry.lowerName]
             mergedSessionIds == mergeSessionIds(JSONparse(existing.sessionIds), entry.sessionIds)
             put == updateEntity(r.sp, [existing EXCEPT !.sessionIds = JSONstringify(mergedSessionIds)])
         IN  IF put.ok
             THEN [r EXCEPT !.sp = put.t, !.updated = @ + 1,
                            !.replaced = Append(@, existing.rowKey),
                            !.speakers = Append(@, [name |-> entry.displayName,
                                                    action |-> "updated",
                                                    sessions |-> Len(mergedSessionIds)])]
             ELSE [r EXCEPT !.status = 500]
    ELSE LET speakerId == generateSpeakerId(entry.displayName, r.n + 1)
             entity == [partitionKey |-> <<"speaker">>,
                        rowKey |-> speakerId,
                        name |-> entry.displayName,
                        title |-> <<>>, company |-> <<>>, bio |-> <<>>,
                        headshotFile |-> <<>>, linkedin |-> <<>>, twitter |-> <<>>,
                        sessionIds |-> JSONstringify(entry.sessionIds)]
             made == createEntity(r.sp, entity)
         IN  IF made.ok
             THEN [r EXCEPT !.sp = made.t, !.n = @ + 1, !.created = @ + 1,
                            !.speakers = Append(@, [name |-> entry.displayName,
                                                    action |-> "created",
                                                    sessions |-> Len(entry.sessionIds)])]
             ELSE [r EXCEPT !.n = @ + 1, !.status = 500]

\* the create/update loop: it ends at the first storage call that throws
RECURSIVE extractFrom(_, _, _, _)
extractFrom(r, existingSpeakers, extracted, k) ==
    IF k > Len(extracted) \/ r.status # 200 THEN r
    ELSE CHOOSE out \in {extractFrom(after, existingSpeakers, extracted, k + 1) :
                            after \in {extractOne(r, existingSpeakers, extracted[k])}} : TRUE

\* extractSpeakers, for the sessions in the order of their scan and the map the
\* scan of the speakers built; n ids were handed out before the call
extractSpeakers(sessions, existingSpeakers, sp, n) ==
    CHOOSE out \in {extractFrom([sp |-> sp, n |-> n, status |-> 200, created |-> 0,
                                 updated |-> 0, speakers |-> <<>>, replaced |-> <<>>],
                                existingSpeakers, extracted, 1) :
                       extracted \in {extractedSpeakers(sessions)}} : TRUE

\* the orders a scan of the sessions can return them in: by partition key, then
\* by row key (the order of the generated ids is not modelled)
ScanOrders(t) ==
    {p \in [1..Cardinality(t) -> t] :
        \A i, j \in 1..Cardinality(t) :
            i < j => /\ p[i] # p[j]
                     /\ PartitionRank(p[i].partitionKey) <= PartitionRank(p[j].partitionKey)}

\* the number a generated speaker id ends with
IdNumber(rowKey) == CHOOSE n \in 0..99 : ToString(n) = rowKey[Len(rowKey)]

\* the map keyed by the names as they are written
ExistingSpeakerMapsByName(sp) ==
    {[l \in {e.name : e \in sp} |->
         CHOOSE e \in sp : e.name = l /\ \A o \in sp : o.name = l => IdNumber(o.rowKey) <= IdNumber(e.rowKey)]}

\* the map existingSpeakers.set(entity.name.toLowerCase(), entity) builds: of
\* the speakers of one lower-cased name, the one scanned last is kept. A scan
\* returns the rows in the order of their keys, so the same table gives the
\* same map; speakers of one lower-cased name have the same slug, and their
\* order is that of the ends of their ids
ExistingSpeakerMaps(sp) ==
    {[l \in {toLowerCase(e.name) : e \in sp} |->
         CHOOSE e \in sp :
             /\ toLowerCase(e.name) = l
             /\ \A o \in sp : toLowerCase(o.name) = l => IdNumber(o.rowKey) <= IdNumber(e.rowKey)]}

(***************************************************************************)
(* Speaker runs: sessions with speaker lines, speaker CRUD and extraction  *)
(***************************************************************************)
JaneDoe == <<"Jane", SPACE, "Doe">>

JeanLucPicard == <<"Jean", "-", "Luc", SPACE, "Picard">>

OtherText == <<LF, "Other", SPACE, "text">>

\* bodies of POST /api/schedule whose descriptions name speakers
SpeakerSessionBodies ==
    { [videoId |-> <<"vid1">>, title |-> <<"Talk">>, startTime |-> T1,
       description |-> <<"Speaker:", SPACE>> \o JaneDoe \o OtherText],
      [videoId |-> <<"vid2">>, title |-> <<"Bridge">>, startTime |-> T2,
       description |-> <<"Speaker:", SPACE>> \o JeanLucPicard \o OtherText],
      [videoId |-> <<"vid3">>, title |-> <<"Panel">>, startTime |-> T3,
       description |-> <<"Speakers:", SPACE, "jane", SPACE, "doe", COMMA, SPACE, "Al", SPACE,
                         "Wu", SPACE, "-", SPACE, "CTO", LF, SPACE, SPACE>> \o JaneDoe] }

\* bodies of POST /api/schedule whose speaker list goes on in a line that
\* starts with a lower-case letter
ContinuationBodies ==
    { [videoId |-> <<"vid4">>, title |-> <<"Duo">>, startTime |-> T2,
       description |-> <<"Speakers:", SPACE>> \o JaneDoe \o <<LF, "al", SPACE, "wu">>] }

\* bodies of POST /api/speakers
SpeakerBodies ==
    { [name |-> JaneDoe, title |-> <<"CTO">>, bio |-> <<"text">>,
       sessionIds |-> <<<<"old_1">>, <<"old_2">>, <<"old_1">>>>],
      [name |-> <<"JANE", SPACE, "DOE">>],
      [title |-> <<"CTO">>] }

\* bodies of PUT /api/speakers/{id}
SpeakerUpdateBodies ==
    { [name |-> <<"Al", SPACE, "Wu">>, company |-> <<"Contoso">>],
      [sessionIds |-> <<>>, bio |-> <<>>] }

MissingSpeakerId == <<"nobody-0">>

SpeakersFrame == UNCHANGED <<x, csv, fields, phase, procs, writeLog>>

\* POST /api/schedule with a description that names speakers
CreateSpeakerSession ==
    /\ ops < MaxSpeakerOps
    /\ \E body \in SpeakerSessionBodies \cup ContinuationBodies :
          \E r \in {addScheduleItem(table, nextId, body)} :
              /\ table' = r.t
              /\ nextId' = nextId + 1
              /\ last' = [Served("create", r.id, body, <<>>, table, r.status, 0, 0, <<>>)
                             EXCEPT !.jsonBody = r.jsonBody]
    /\ ops' = ops + 1
    /\ UNCHANGED speakers
    /\ SpeakersFrame

\* POST /api/speakers
AddSpeaker ==
    /\ ops < MaxSpeakerOps
    /\ \E body \in SpeakerBodies :
          \E r \in {addSpeaker(speakers, nextId, body)} :
              /\ speakers' = r.sp
              /\ nextId' = nextId + 1
              /\ last' = Served("addSpeaker", r.id, body, <<>>, speakers, r.status, 0, 0, <<>>)
    /\ ops' = ops + 1
    /\ UNCHANGED table
    /\ SpeakersFrame

\* PUT /api/speakers/{id}
UpdateSpeaker ==
    /\ ops < MaxSpeakerOps
    /\ \E id \in RowKeys(speakers) \cup {MissingSpeakerId}, body \in SpeakerUpdateBodies :
          \E r \in {updateSpeaker(speakers, id, body)} :
              /\ speakers' = r.sp
              /\ last' = Served("updateSpeaker", id, body, <<>>, speakers, r.status, 0, 0, <<>>)
    /\ ops' = ops + 1
    /\ UNCHANGED <<table, nextId>>
    /\ SpeakersFrame

\* DELETE /api/speakers/{id}
DeleteSpeaker ==
    /\ ops < MaxSpeakerOps
    /\ \E id \in RowKeys(speakers) \cup {MissingSpeakerId} :
          \E r \in {deleteSpeaker(speakers, id)} :
              /\ speakers' = r.sp
              /\ last' = Served("deleteSpeaker", id, NoBody, <<>>, speakers, r.status, 0, 0, <<>>)
    /\ ops' = ops + 1
    /\ UNCHANGED <<table, nextId>>
    /\ SpeakersFrame

\* POST /api/speakers/extract
ExtractSpeakers ==
    /\ ops < MaxSpeakerOps
    /\ \E sessions \in ScanOrders(table), existingSpeakers \in ExistingSpeakerMaps(speakers) :
          \E r \in {extractSpeakers(sessions, existingSpeakers, speakers, nextId)} :
              /\ speakers' = r.sp
              /\ nextId' = r.n
              /\ last' = [Served("extract", <<>>, NoBody, <<>>, speakers, r.status,
                                 r.created, r.updated, <<>>)
                             EXCEPT !.jsonBody = [speakers |-> r.speakers],
                                    !.items = r.replaced]
    /\ ops' = ops + 1
    /\ UNCHANGED table
    /\ SpeakersFrame

NextSpeakers ==
    CreateSpeakerSession \/ AddSpeaker \/ UpdateSpeaker \/ DeleteSpeaker \/ ExtractSpeakers

SpecSpeakers == Init /\ [][NextSpeakers]_vars

(***************************************************************************)
(* Claims about the codec (checked under SpecCsv)                          *)
(***************************************************************************)
\* C1: for every string x, parsing escapeCsvField(x) with parseCsvLine returns
\* the single field x unchanged.
C1_RoundTrip == phase = "parsed" => fields = <<x>>

\* x with every double quote doubled, stated position by position
RECURSIVE Doubled(_)
Doubled(str) ==
    IF str = <<>> THEN <<>>
    ELSE LET rest == Doubled(SubSeq(str, 1, Len(str) - 1))
             ch == str[Len(str)]
         IN  IF ch = DQ THEN rest \o <<DQ, DQ>> ELSE Append(rest, ch)

\* C10: a value whose first character is '-', '+', '=' or '@' is written as a
\* double-quoted field holding a single quote followed by the value (double
\* quotes doubled), and parsing that text returns exactly the value.
C10_FormulaProtected ==
    (x # <<>> /\ x[1] \in {"-", "+", "=", "@"}) =>
        /\ phase \in {"escaped", "parsed"} => csv = <<DQ, SQ>> \o Doubled(x) \o <<DQ>>
        /\ phase = "parsed" => fields = <<x>>

\* C10 witness: =SUM(A1) was exported as "'=SUM(A1)" and read back as =SUM(A1)
C10_Witness ==
    /\ x = <<"=", "SUM(A1)">>
    /\ phase = "parsed"
    /\ csv = <<DQ, SQ, "=", "SUM(A1)", DQ>>
    /\ fields = <<x>>

(***************************************************************************)
(* Claims about the handlers (checked under Spec)                          *)
(***************************************************************************)
\* how an uploaded file reads, column by column
ColumnsOf(sh, name) == {k \in DOMAIN sh.header : toLowerCase(Trim(sh.header[k])) = <<name>>}

Cell(sh, j, name) ==
    IF ColumnsOf(sh, name) = {} THEN <<>>
    ELSE LET k == CHOOSE c \in ColumnsOf(sh, name) : TRUE
         IN  IF k <= Len(sh.rows[j]) THEN sh.rows[j][k] ELSE <<>>

HeaderComplete(sh) == \A name \in {"videoid", "title", "starttime"} : ColumnsOf(sh, name) # {}

\* the sessionid a data row gives, <<>> when it gives none
RowId(sh, j) == Trim(Cell(sh, j, "sessionid"))

GoodRows(sh) == {j \in DOMAIN sh.rows : IsValidDate(Cell(sh, j, "starttime"))}

BadRows(sh) == DOMAIN sh.rows \ GoodRows(sh)

ImportedSheet(sh) == last.op = "import" /\ last.text = SheetText(sh)

\* C2: export followed by import of the unmodified export text leaves the set
\* of records by sessionId identical: none lost, none duplicated, none minted.
C2_ExportImportKeepsIds ==
    (last.op = "import" /\ last.text \in ExportTexts(last.before)) =>
        /\ RowKeys(table) = RowKeys(last.before)
        /\ Cardinality(table) = Cardinality(last.before)

\* C3: a data row whose starttime does not parse writes nothing and adds
\* exactly one entry to errors; every later valid row is still created or
\* updated and the response is 200.
C3_BadRowSkipped ==
    \A sh \in Sheets :
        (ImportedSheet(sh) /\ HeaderComplete(sh) /\ sh.rows # <<>>) =>
            /\ last.status = 200
            /\ Len(last.errors) = Cardinality(BadRows(sh))
            /\ \A j \in BadRows(sh) :
                  Cardinality({k \in DOMAIN last.errors : last.errors[k].row = j + 1}) = 1
            /\ last.created + last.updated = Cardinality(GoodRows(sh))
            /\ \A j \in GoodRows(sh) : RowId(sh, j) # <<>> => RowId(sh, j) \in RowKeys(table)
            /\ \A e \in table :
                  e \in last.before \/ \E j \in GoodRows(sh) : RowId(sh, j) \in {<<>>, e.rowKey}
            /\ \A e \in last.before :
                  e \in table \/ \E j \in GoodRows(sh) : RowId(sh, j) = e.rowKey

\* C3 witness: the file with a bad row before and after a good one was imported
\* into a table that held a session
C3_Witness ==
    /\ ImportedSheet(SheetBadRows)
    /\ last.before # {}
    /\ last.status = 200
    /\ Len(last.errors) = 2
    /\ <<"imp_2">> \in RowKeys(table)
    /\ <<"imp_1">> \notin RowKeys(table)
    /\ last.before \subseteq table

\* two entities agree on every field but the title
SameButTitle(e, f) ==
    /\ e.partitionKey = f.partitionKey
    /\ e.rowKey = f.rowKey
    /\ e.videoId = f.videoId
    /\ e.description = f.description
    /\ e.url = f.url
    /\ e.startTime = f.startTime
    /\ e.duration = f.duration

\* C4: a PUT whose body holds only title leaves videoId, description, url,
\* startTime and duration of that session, and every field of every other
\* session, as they were.
C4_TitleOnlyUpdate ==
    (last.op = "update" /\ DOMAIN last.body = {"title"}) =>
        /\ Cardinality(table) = Cardinality(last.before)
        /\ \A e \in last.before :
              IF e.rowKey = last.id
              THEN \E f \in table : SameButTitle(e, f)
              ELSE e \in table

\* C4 witness: the title of one of two sessions was replaced
C4_Witness ==
    /\ last.op = "update"
    /\ DOMAIN last.body = {"title"}
    /\ last.status = 200
    /\ Cardinality(last.before) = 2
    /\ \E e \in last.before, f \in table :
          /\ e.rowKey = last.id
          /\ f.rowKey = last.id
          /\ f.title = last.body.title
          /\ e.title # f.title
          /\ e.description # <<>>
          /\ e.duration # 0

\* C6: PUT or DELETE with an id that matches no row returns 404 and leaves the
\* table unchanged; DELETE with a matching id removes that row and no other.
C6_NotFoundAndDelete ==
    /\ (last.op \in {"update", "delete"} /\ last.id \notin RowKeys(last.before)) =>
          (last.status = 404 /\ table = last.before)
    /\ (last.op = "delete" /\ last.id \in RowKeys(last.before)) =>
          /\ last.status = 200
          /\ table = {e \in last.before : e.rowKey # last.id}
          /\ Cardinality(table) = Cardinality(last.before) - 1

\* C6 witness: one of two sessions of the same day was deleted
C6_Witness ==
    /\ last.op = "delete"
    /\ last.status = 200
    /\ Cardinality(last.before) = 2
    /\ Cardinality(table) = 1
    /\ \A e \in last.before : e.partitionKey = Partitions[1]

\* C7: a create with videoId, title or startTime missing is rejected with 400
\* and no row is written.
C7_CreateValidates ==
    (last.op = "create" /\ ~({"videoId", "title", "startTime"} \subseteq DOMAIN last.body)) =>
        (last.status = 400 /\ table = last.before)

FileRejected(sh) ==
    sh.rows = <<>> \/ \E name \in {"videoid", "title", "starttime"} : ColumnsOf(sh, name) = {}

\* C8: an import whose header lacks videoid, title or starttime (compared
\* without regard to case), or whose body has no data row, returns 400 and
\* writes nothing; a header that has them in another case is not rejected.
C8_StructuralFailure ==
    /\ (last.op = "import" /\ (last.text = <<>> \/ last.text \in ExportTexts({}))) =>
          (last.status = 400 /\ table = last.before)
    /\ \A sh \in Sheets :
          ImportedSheet(sh) =>
              IF FileRejected(sh)
              THEN last.status = 400 /\ table = last.before
              ELSE last.status = 200

\* C8 witness: a file without a title column, with a valid data row, was
\* refused and the table, which held a session, was left alone
C8_Witness ==
    /\ ImportedSheet(SheetNoTitle)
    /\ last.status = 400
    /\ last.before # {}
    /\ table = last.before

\* the last good row of a file that gives the id
LastRowOf(sh, id) ==
    CHOOSE j \in GoodRows(sh) :
        RowId(sh, j) = id /\ \A k \in GoodRows(sh) : RowId(sh, k) = id => k <= j

\* the good rows of a file whose id exists when the row is reached
RowsOfExistingIds(sh) ==
    {j \in GoodRows(sh) :
        /\ RowId(sh, j) # <<>>
        /\ \/ RowId(sh, j) \in RowKeys(last.before)
           \/ \E k \in GoodRows(sh) : k < j /\ RowId(sh, k) = RowId(sh, j)}

\* C9: when an imported row's sessionid matches an existing row, the id exists
\* exactly once after the import, under the partition key derived from the
\* imported starttime and with the imported fields, whether the existing row was
\* under another partition key or the same one; the row is counted as updated.
C9_ImportMovesPartition ==
    \A sh \in Sheets :
        (ImportedSheet(sh) /\ last.status = 200) =>
            /\ last.updated = Cardinality(RowsOfExistingIds(sh))
            /\ \A j \in RowsOfExistingIds(sh) :
                  LET id == RowId(sh, j)
                      row == LastRowOf(sh, id)
                  IN  /\ Cardinality({e \in table : e.rowKey = id}) = 1
                      /\ \A e \in table :
                            e.rowKey = id =>
                                /\ e.partitionKey = IsoDate(Cell(sh, row, "starttime"))
                                /\ e.startTime = Cell(sh, row, "starttime")
                                /\ e.title = Trim(Cell(sh, row, "title"))
                                /\ e.videoId = Trim(Cell(sh, row, "videoid"))

\* C9 witness: a session stored under 2026-03-15 was imported with a starttime
\* of 2026-03-16 and is now stored once, under 2026-03-16
C9_Witness ==
    /\ ImportedSheet(SheetMove)
    /\ last.status = 200
    /\ \E e \in last.before : e.rowKey = generateSessionId(1) /\ e.partitionKey = Partitions[1]
    /\ \E e \in table : e.rowKey = generateSessionId(1) /\ e.partitionKey = Partitions[2]
    /\ last.updated = 2
    /\ last.created = 1

(***************************************************************************)
(* Claims about concurrent requests (checked under SpecConc)               *)
(***************************************************************************)
AllDone == \A p \in DOMAIN procs : procs[p].pc = "done"

\* C5: when PUT requests for the same existing session run concurrently, in
\* every interleaving of their scans and writes every caller gets a success
\* response, and the row stored afterwards is exactly the entity written by the
\* replace that executed last.
C5_LastWriteWins ==
    AllDone =>
        /\ \A p \in DOMAIN procs : procs[p].status = 200
        /\ Len(writeLog) = NumPuts
        /\ \A p \in DOMAIN procs :
              {e \in table : e.rowKey = procs[p].id} = {writeLog[Len(writeLog)]}

\* C5 witness: both requests scanned before either wrote, the first changed the
\* title, the second wrote over it from its stale copy, and both got 200
C5_Witness ==
    /\ AllDone
    /\ \A p \in DOMAIN procs : procs[p].status = 200
    /\ Len(writeLog) >= 2
    /\ \E p \in DOMAIN procs :
          /\ writeLog[1].title # procs[p].existingEntity.title
          /\ writeLog[Len(writeLog)].title = procs[p].existingEntity.title
    /\ writeLog[Len(writeLog)] \in table
    /\ writeLog[1] \notin table

(***************************************************************************)
(* More claims about the handlers (checked under Spec)                     *)
(***************************************************************************)
\* the calendar date, in UTC, of the instant a timestamp names
UtcDate(v) == <<KnownTimes[v[1]].date>>

\* the rows a request wrote: those of the table that were not there before
WrittenRows == table \ last.before

\* C11: every row written by a create or by a CSV import has a partitionKey
\* equal to the YYYY-MM-DD (UTC) date of the startTime given in that request.
C11_PartitionKeyFromStartTime ==
    /\ (last.op = "create" /\ last.status = 201) =>
          /\ WrittenRows # {}
          /\ \A e \in WrittenRows :
                e.rowKey = last.id /\ e.partitionKey = UtcDate(last.body.startTime)
    /\ last.op = "import" =>
          \A e \in WrittenRows : IsValidDate(e.startTime) /\ e.partitionKey = UtcDate(e.startTime)
    /\ \A sh \in Sheets :
          (ImportedSheet(sh) /\ last.status = 200) =>
              \A j \in GoodRows(sh) :
                  RowId(sh, j) # <<>> =>
                      \A e \in table :
                          e.rowKey = RowId(sh, j) =>
                              e.partitionKey =
                                  UtcDate(Cell(sh, LastRowOf(sh, RowId(sh, j)), "starttime"))

\* C11 witness: a session created with a start of 23:30 -04:00 on 2026-03-15 is
\* stored under 2026-03-16, and so is the row an import wrote for that start
C11_Witness ==
    /\ ImportedSheet(SheetLateEvening)
    /\ last.status = 200
    /\ \E e \in last.before :
          e.rowKey = generateSessionId(1) /\ e.startTime = T4 /\ e.partitionKey = <<"2026-03-16">>
    /\ \E e \in WrittenRows :
          e.rowKey = <<"imp_5">> /\ e.startTime = T4 /\ e.partitionKey = <<"2026-03-16">>

\* the starts of two listed items are in order when both parse
InOrder(a, b) ==
    (IsValidDate(a.startTime) /\ IsValidDate(b.startTime)) =>
        GetTime(a.startTime) <= GetTime(b.startTime)

\* the list holds every row of the table exactly once
ListsEveryRowOnce(items, t) ==
    /\ Len(items) = Cardinality(t)
    /\ \A e \in t : \E i \in DOMAIN items :
          /\ items[i].id = e.rowKey
          /\ items[i].sessionId = e.rowKey
          /\ [k \in {"videoId", "title", "description", "url", "startTime", "duration"} |->
                 items[i][k]]
               = [k \in {"videoId", "title", "description", "url", "startTime", "duration"} |->
                 e[k]]

\* C12: GET /api/schedule returns every row of the table exactly once, in
\* ascending order of parsed startTime, for any table reachable through the API.
C12_ListSorted ==
    last.op = "list" =>
        /\ last.status = 200
        /\ ListsEveryRowOnce(last.items, last.before)
        /\ \A i, j \in DOMAIN last.items : i < j => InOrder(last.items[i], last.items[j])

\* the fields of a session a PUT body can give
BodyFields == {"videoId", "title", "description", "url", "startTime", "duration"}

\* the row of the updated id before and after the request
RowBefore == CHOOSE e \in last.before : e.rowKey = last.id

RowAfter == CHOOSE e \in table : e.rowKey = last.id

\* C13: on a PUT every field present in the body is stored with the body's
\* value (an empty string and 0 included) and only the absent fields keep their
\* prior value.
C13_PresentFieldsStored ==
    (last.op = "update" /\ last.status = 200) =>
        \A k \in BodyFields :
            IF k \in DOMAIN last.body
            THEN RowAfter[k] = last.body[k]
            ELSE RowAfter[k] = RowBefore[k]

\* the storage keys of the rows of a table
Keys(t) == {<<e.partitionKey, e.rowKey>> : e \in t}

\* C14: no PUT changes the partitionKey or the rowKey of a session: after an
\* update, also one whose new startTime falls on another date, the row is
\* stored under its original partition key with the same sessionId and no
\* second row exists.
C14_UpdateKeepsKeys ==
    (last.op = "update" /\ last.id \in RowKeys(last.before)) =>
        /\ last.status = 200
        /\ Keys(table) = Keys(last.before)
        /\ Cardinality(table) = Cardinality(last.before)
        /\ RowAfter.partitionKey = RowBefore.partitionKey
        /\ \A k \in DOMAIN last.body : k \in {"startTime", "title"} /\ last.body[k] # <<>> =>
              RowAfter[k] = last.body[k]

\* C14 witness: a session of 2026-03-15 was given a startTime of 2026-03-16 and
\* is still the only row of its id, under 2026-03-15
C14_Witness ==
    /\ last.op = "update"
    /\ last.status = 200
    /\ "startTime" \in DOMAIN last.body
    /\ RowBefore.partitionKey = <<"2026-03-15">>
    /\ UtcDate(RowBefore.startTime) = <<"2026-03-15">>
    /\ RowAfter.startTime = T3
    /\ RowAfter.partitionKey = <<"2026-03-15">>
    /\ Cardinality({e \in table : e.rowKey = last.id}) = 1

\* C15: a session created with no url, description or duration is stored with
\* url https://www.youtube.com/watch?v=<videoId>, description empty and duration
\* 0, under a new sessionId that no row used before, and the response carries
\* that sessionId as id and as sessionId.
C15_CreateDefaults ==
    (/\ last.op = "create"
     /\ {"videoId", "title", "startTime"} \subseteq DOMAIN last.body
     /\ IsValidDate(last.body.startTime)
     /\ DOMAIN last.body \cap {"url", "description", "duration"} = {}) =>
        /\ last.status = 201
        /\ last.id \notin RowKeys(last.before)
        /\ last.jsonBody = [id |-> last.id, sessionId |-> last.id]
        /\ table = last.before \cup
              {[partitionKey |-> UtcDate(last.body.startTime),
                rowKey |-> last.id,
                videoId |-> last.body.videoId,
                title |-> last.body.title,
                description |-> <<>>,
                url |-> <<"https://www.youtube.com/watch?v=">> \o last.body.videoId,
                startTime |-> last.body.startTime,
                duration |-> 0]}

\* C15 witness: the second session of a table was created from videoId, title
\* and startTime alone
C15_Witness ==
    /\ last.op = "create"
    /\ last.status = 201
    /\ last.body = [videoId |-> <<"abc123">>, title |-> <<"Keynote">>, startTime |-> T1]
    /\ last.before # {}
    /\ Cardinality(table) = Cardinality(last.before) + 1
    /\ \E e \in table : e.rowKey = last.id /\ e.url = <<"https://www.youtube.com/watch?v=", "abc123">>

\* the ways to put the rows of a table in a sequence, each row once
Sequences(t) ==
    {p \in [1..Cardinality(t) -> t] : \A i, j \in 1..Cardinality(t) : i # j => p[i] # p[j]}

\* the text is the header line followed by one line per row of p, in order
IsExportOf(text, p) == text = exportCsv(p)

\* the text parses to 1 + n records of 7 fields, the first being the header
ParsesToRecords(text, n) ==
    \E rows \in {parseCsv(text)} :
        /\ Len(rows) = 1 + n
        /\ parseCsvLine(rows[1]) = FullHeader
        /\ \A i \in DOMAIN rows : Len(parseCsvLine(rows[i])) = 7

\* C16: the export is the header row sessionId,...,duration followed by exactly
\* one record per session, in ascending startTime order and in that column
\* order, and parseCsv with parseCsvLine read it as 1 + n records of 7 fields.
C16_ExportShape ==
    last.op = "export" =>
        /\ last.status = 200
        /\ \E p \in Sequences(last.before) :
              /\ IsExportOf(last.text, p)
              /\ \A i, j \in DOMAIN p : i < j => InOrder(p[i], p[j])
        /\ ParsesToRecords(last.text, Cardinality(last.before))

\* the data rows of an uploaded text as the import reads them: the trimmed
\* sessionid cell and whether the starttime cell parses
DataRowsOf(text) ==
    CHOOSE out \in
        { LET headers == headersOf(parseCsvLine(rows[1]))
          IN  [j \in 1..(Len(rows) - 1) |->
                  CHOOSE cell \in
                      { [id |-> OrElse(OptTrim(Field(headers, values, "sessionid")), <<>>),
                         valid |-> IsValidDate(Field(headers, values, "starttime"))]
                        : values \in {parseCsvLine(rows[j + 1])} } : TRUE]
          : rows \in {parseCsv(text)} } : TRUE

\* the valid data rows whose sessionid existed when the row was reached
ExistedWhenReached(data, before) ==
    {j \in DOMAIN data :
        /\ data[j].valid
        /\ data[j].id # <<>>
        /\ \/ data[j].id \in RowKeys(before)
           \/ \E k \in 1..(j - 1) : data[k].valid /\ data[k].id = data[j].id}

C21_DurationNotNegative == \A e \in table : e.duration \in Nat

\* C27: an export followed by the import of the unmodified text leaves every
\* field of every stored session as it was, the partition key included.
C27_ExportImportKeepsFields == last.op = "reimport" => table = last.before

(***************************************************************************)
(* Claims about the playlist import (checked under SpecPlaylist)           *)
(***************************************************************************)
TwoDigits(tok) == CHOOSE n \in 0..59 : Pad2(n) = tok

\* the instant an ISO string of toISOString names, in seconds from
\* 2026-03-15T00:00:00Z
SecondsOf(iso) ==
    (CHOOSE day \in -14..16 : DateString(day) = iso[1]) * 86400
        + TwoDigits(iso[3]) * 3600 + TwoDigits(iso[5]) * 60 + TwoDigits(iso[7])

\* the minutes between sessions a request asks for, 60 when it names none
SessionMinutes(body) ==
    IF "sessionDuration" \in DOMAIN body /\ body.sessionDuration # 0
    THEN body.sessionDuration ELSE DefaultSessionDuration

IsSkippedItem(item) == item.title \in skippedTitles

PlaylistImported == last.op = "playlist" /\ last.status = 200

\* created + skipped + number of errors is the number of items, and private
\* and deleted videos are skipped and create no row
PlaylistCounts ==
    LET res == last.jsonBody
    IN  /\ res.created + res.skipped + Len(res.errors) = Len(last.items)
        /\ res.skipped = Cardinality({k \in DOMAIN last.items : IsSkippedItem(last.items[k])})
        /\ res.created = Len(res.videos)
        /\ res.created = Cardinality(table)
        /\ \A e \in table : e.title \notin skippedTitles
        /\ \A k \in DOMAIN res.videos :
              \E e \in table : /\ e.videoId = res.videos[k].videoId
                               /\ e.title = res.videos[k].title
                               /\ e.startTime = res.videos[k].startTime
                               /\ e.partitionKey = <<e.startTime[1]>>
        /\ res.errors = <<>> =>
              [k \in DOMAIN res.videos |-> res.videos[k].title]
                  = LET kept == SelectSeq(last.items, LAMBDA item : ~IsSkippedItem(item))
                    IN  [k \in DOMAIN kept |-> kept[k].title]

\* the first created session starts at startDate and each next one starts the
\* duration of the video before it plus sessionDuration minutes later
PlaylistSpacing ==
    LET videos == last.jsonBody.videos
    IN  /\ (videos # <<>> /\ "startDate" \in DOMAIN last.body) =>
               SecondsOf(videos[1].startTime) = NewDate(last.body.startDate).time
        /\ \A k \in 1..(Len(videos) - 1) :
               SecondsOf(videos[k + 1].startTime)
                   = SecondsOf(videos[k].startTime)
                       + videoDuration(last.calls, videos[k].videoId)
                       + SessionMinutes(last.body) * 60

PlaylistIncreasing ==
    LET videos == last.jsonBody.videos
    IN  \A k \in 1..(Len(videos) - 1) :
            SecondsOf(videos[k].startTime) < SecondsOf(videos[k + 1].startTime)

\* C30: the playlist import schedules the created sessions in playlist order,
\* the first at startDate and each next one (duration of the video before it +
\* sessionDuration x 60) seconds later, so that start times strictly increase;
\* private and deleted videos create no row and do not move the clock, and
\* created + skipped + number of errors is the number of items.
C30_PlaylistSchedule ==
    PlaylistImported => PlaylistCounts /\ PlaylistSpacing /\ PlaylistIncreasing

(***************************************************************************)
(* Claims about races (checked under SpecRace)                             *)
(***************************************************************************)
\* C23: in every reachable state of the session table, also with interleaved
\* create, import, update and delete requests, at most one row carries a given
\* rowKey across all partition keys.
C23_RowKeyUnique ==
    \A e, f \in table : e.rowKey = f.rowKey => e = f

\* the delete of q was done after the scan of the update p had found the row
\* and before p wrote: p holds the row, and the first write of the race is the
\* delete
DeletedBetween(p, q) ==
    /\ procs[p].op = "update"
    /\ procs[q].op = "delete"
    /\ procs[p].id = procs[q].id
    /\ procs[p].existingEntity # NoEntity
    /\ procs[q].status = 200
    /\ writeLog # <<>>
    /\ writeLog[1] = [deleted |-> procs[q].id]

\* C24: when a DELETE of a session completes between the scan and the write of
\* a concurrent PUT, the PUT does not bring the row back: once both are done the
\* session is absent from the table and the PUT has reported an error.
C24_DeleteBeatsStaleUpdate ==
    AllDone =>
        \A p, q \in DOMAIN procs :
            DeletedBetween(p, q) =>
                /\ procs[p].status >= 400
                /\ \A e \in table : e.rowKey # procs[p].id

\* C24 witness: the PUT scanned, the DELETE deleted the row, then the PUT wrote
\* and got 500
C24_Witness ==
    /\ AllDone
    /\ \E p, q \in DOMAIN procs : DeletedBetween(p, q) /\ procs[p].status = 500
    /\ table = {}

(***************************************************************************)
(* Claims about imports with storage faults (checked under                 *)
(* SpecImportFaults)                                                       *)
(***************************************************************************)
\* C25: when a storage call throws while the import handles a row whose
\* sessionId exists in the table, the stored session is not lost: after the
\* import a row of that sessionId is present, with its old or its new contents.
C25_FaultKeepsSession ==
    (procs[1].pc = "done" /\ writeLog # <<>> /\ procs[1].id \in RowKeys(last.before)) =>
        \E e \in table :
            /\ e.rowKey = procs[1].id
            /\ e \in last.before \/ e = procs[1].body

\* a call of a row of an existing sessionId threw and the session is still
\* stored: the replace of a row of the same date threw
C25_ReplaceThrewKept ==
    /\ procs[1].pc = "done"
    /\ writeLog = <<[threw |-> "replace"]>>
    /\ procs[1].id \in RowKeys(last.before)
    /\ procs[1].id \in RowKeys(table)

(***************************************************************************)
(* Claims about the speakers (checked under SpecSpeakers)                  *)
(***************************************************************************)
Range(seq) == {seq[i] : i \in DOMAIN seq}

\* the lower-cased names the descriptions of the sessions mention, and the
\* sessions that mention a name
MentionedBy(session) == {toLowerCase(n) : n \in Range(mentionedNames(session.description))}

MentionedNames == UNION {MentionedBy(session) : session \in table}

FoundIds(lowerName) == {session.rowKey : session \in {e \in table : lowerName \in MentionedBy(e)}}

NamedLike(sp, lowerName) == {e \in sp : toLowerCase(e.name) = lowerName}

IdsOfSpeaker(e) == Range(JSONparse(e.sessionIds))

Extracted == last.op = "extract" /\ last.status = 200

\* C17: for each name extracted, if a speaker with a case-insensitively equal
\* name exists, that speaker is replaced with the union of its previous ids and
\* the found ids and all its other fields unchanged, and no speaker is created;
\* otherwise exactly one speaker is created, with that name, the found ids and
\* every other field empty.
C17_ExtractMergesOrCreates ==
    Extracted =>
        \A lowerName \in MentionedNames :
            IF NamedLike(last.before, lowerName) # {}
            THEN /\ RowKeys(NamedLike(speakers, lowerName)) = RowKeys(NamedLike(last.before, lowerName))
                 /\ \E e \in NamedLike(last.before, lowerName) :
                       /\ {k \in DOMAIN last.items : last.items[k] \in RowKeys(NamedLike(last.before, lowerName))}
                            = {k \in DOMAIN last.items : last.items[k] = e.rowKey}
                       /\ \E f \in speakers :
                             /\ f = [e EXCEPT !.sessionIds = f.sessionIds]
                             /\ IdsOfSpeaker(f) = IdsOfSpeaker(e) \cup FoundIds(lowerName)
                             /\ f.rowKey \in Range(last.items)
            ELSE /\ Cardinality(NamedLike(speakers, lowerName)) = 1
                 /\ \A f \in NamedLike(speakers, lowerName) :
                       /\ f.rowKey \notin RowKeys(last.before)
                       /\ IdsOfSpeaker(f) = FoundIds(lowerName)
                       /\ \A k \in SpeakerTexts : f[k] = <<>>

\* C17 witness: one extraction merged a session into a speaker that had ids and
\* a title, and created a speaker for another name
C17_Witness ==
    /\ Extracted
    /\ last.created >= 1
    /\ last.updated >= 1
    /\ \E e \in last.before, f \in speakers :
          /\ f.rowKey = e.rowKey
          /\ f.rowKey \in Range(last.items)
          /\ e.title = <<"CTO">>
          /\ IdsOfSpeaker(e) = {<<"old_1">>, <<"old_2">>}
          /\ Cardinality(IdsOfSpeaker(f)) = 3

NoDuplicates(list) == \A i, j \in DOMAIN list : list[i] = list[j] => i = j

\* C18: after extractSpeakers merged session ids into an existing speaker, the
\* sessionIds stored for that speaker hold no id twice, whatever the list held
\* before the merge.
C18_MergedIdsUnique ==
    Extracted =>
        \A f \in speakers : f.rowKey \in Range(last.items) => NoDuplicates(JSONparse(f.sessionIds))

\* C18 witness: the speaker merged into had an id twice in its list
C18_Witness ==
    /\ Extracted
    /\ \E e \in last.before, f \in speakers :
          /\ f.rowKey = e.rowKey
          /\ f.rowKey \in Range(last.items)
          /\ ~NoDuplicates(JSONparse(e.sessionIds))
          /\ Len(JSONparse(f.sessionIds)) = 3

\* the names written as <First Last> in the descriptions of the sessions
FirstLastNames == {JaneDoe, JeanLucPicard}

\* C19: for a session whose description is a 'Speaker: <First Last>' line
\* followed by a line of other text that starts with an upper-case letter, the
\* extraction yields exactly one extracted speaker, named <First Last>, whose
\* sessionIds holds the id of that session.
C19_SpeakerLineExtracted ==
    Extracted =>
        \A session \in table, name \in FirstLastNames :
            session.description = <<"Speaker:", SPACE>> \o name \o OtherText =>
                /\ Cardinality({k \in DOMAIN last.jsonBody.speakers :
                                   toLowerCase(last.jsonBody.speakers[k].name) = toLowerCase(name)}) = 1
                /\ \E f \in NamedLike(speakers, toLowerCase(name)) : session.rowKey \in IdsOfSpeaker(f)

\* the lines of a description
RECURSIVE LinesOf(_)
LinesOf(d) ==
    LET cuts == {k \in DOMAIN d : d[k] = LF}
    IN  IF cuts = {} THEN <<d>>
        ELSE LET k == CHOOSE c \in cuts : \A o \in cuts : c <= o
             IN  <<SubSeq(d, 1, k - 1)>> \o LinesOf(SubSeq(d, k + 1, Len(d)))

UpperCaseWords == {"Jane", "JANE", "Doe", "DOE", "Jean", "Luc", "Picard", "Al", "Wu", "CTO", "Other"}

\* the line after the label line goes on with the speaker list: it does not
\* start with an upper-case letter or a heading mark
IsContinuationLine(line) ==
    line # <<>> /\ line[1] \notin UpperCaseWords \cup {"Speaker:", "Speakers:", "#"}

\* C22: a line that follows the label line and does not start with an
\* upper-case letter continues the speaker list: every name on it is extracted
\* for that session.
C22_LowerCaseLineContinues ==
    Extracted =>
        \A session \in table :
            LET lines == LinesOf(session.description)
            IN  (Len(lines) = 2 /\ lines[1][1] \in SpeakerLabels /\ IsContinuationLine(lines[2]))
                    => \A name \in Range(sectionNames(Trim(lines[2]))) :
                          \E f \in NamedLike(speakers, toLowerCase(name)) :
                              session.rowKey \in IdsOfSpeaker(f)

\* C28: every speaker an extraction creates has a sessionIds list that holds
\* no id twice, also when a description names the speaker more than once.
C28_CreatedIdsUnique ==
    Extracted =>
        \A f \in speakers :
            f.rowKey \notin RowKeys(last.before) => NoDuplicates(JSONparse(f.sessionIds))

\* a step of extractSpeakers right after an extraction that returned 200
SecondExtraction ==
    /\ Extracted
    /\ last'.op = "extract"
    /\ ops' = ops + 1
    /\ last'.status = 200

\* C29: an extraction run again on unchanged sessions creates no speaker,
\* reports every extracted name as updated, and leaves the speaker rows and the
\* set of session ids of each speaker as they were.
C29_ExtractionIdempotent ==
    [][SecondExtraction =>
          /\ last'.created = 0
          /\ last'.updated = Cardinality(MentionedNames)
          /\ Len(last'.jsonBody.speakers) = Cardinality(MentionedNames)
          /\ \A k \in DOMAIN last'.jsonBody.speakers : last'.jsonBody.speakers[k].action = "updated"
          /\ RowKeys(speakers') = RowKeys(speakers)
          /\ \A e \in speakers : \E f \in speakers' :
                /\ f = [e EXCEPT !.sessionIds = f.sessionIds]
                /\ IdsOfSpeaker(f) = IdsOfSpeaker(e)]_vars

\* C29 witness: an extraction found every name it extracted already stored
\* with the ids of its sessions, as an earlier extraction left them
C29_Witness ==
    /\ Extracted
    /\ Cardinality(MentionedNames) >= 2
    /\ last.created = 0
    /\ last.updated = Cardinality(MentionedNames)
    /\ RowKeys(speakers) = RowKeys(last.before)
    /\ \A lowerName \in MentionedNames :
          \E e \in NamedLike(last.before, lowerName) :
              /\ FoundIds(lowerName) # {}
              /\ FoundIds(lowerName) \subseteq IdsOfSpeaker(e)

(***************************************************************************)
(* Storage faults: the handlers when a call of the storage client throws   *)
(***************************************************************************)
\* the storage calls of one request a fault can hit
MaxCalls == 4

\* number of requests in a run with faults
MaxFaultOps == 3

ErrorMessages == {"ETIMEDOUT", "The server is busy."}

\* the fault of a request: its at-th storage call throws an Error with the message
Faults == {NoFault} \cup {[at |-> k, message |-> m] : k \in 1..MaxCalls, m \in ErrorMessages}

\* catch (error) { return { status: 500, jsonBody: { error: ..., details: error.message } } }
catchError(failure, error) ==
    [status |-> 500, jsonBody |-> [error |-> failure, details |-> error.message],
     thrown |-> FALSE]

\* the failed call is made a second time before the catch block answers
tryStorageCallsAgain(planned, fault, failure, completed) ==
    IF fault.at \in DOMAIN planned
    THEN [status |-> 500, jsonBody |-> [error |-> failure, details |-> fault.message],
          thrown |-> FALSE, failed |-> TRUE,
          calls |-> Append(SubSeq(planned, 1, fault.at), planned[fault.at])]
    ELSE [status |-> completed.status, jsonBody |-> completed.jsonBody,
          thrown |-> FALSE, failed |-> FALSE, calls |-> planned]

\* try { ... } catch (error) { ... } around the whole body of a handler: planned
\* are the storage calls the body awaits one after the other, completed its
\* return value when none throws; the call that throws ends the body
tryStorageCalls(planned, fault, failure, completed) ==
    IF fault.at \in DOMAIN planned
    THEN LET caught == catchError(failure, fault)
         IN  [status |-> caught.status, jsonBody |-> caught.jsonBody,
              thrown |-> caught.thrown, failed |-> TRUE,
              calls |-> SubSeq(planned, 1, fault.at)]
    ELSE [status |-> completed.status, jsonBody |-> completed.jsonBody,
          thrown |-> FALSE, failed |-> FALSE, calls |-> planned]

\* the storage calls of a handler that scans for the row of an id and writes
\* when it found it
scanAndWrite(t, id, write) ==
    IF {e \in t : e.rowKey = id} = {} THEN <<"listEntities">> ELSE <<"listEntities", write>>

\* getSpeaker
getSpeaker(sp, id) ==
    LET found == {e \in sp : e.rowKey = id}
    IN  IF found = {}
        THEN [status |-> 404, jsonBody |-> [error |-> "Speaker not found"]]
        ELSE LET entity == CHOOSE e \in found : TRUE
             IN  [status |-> 200,
                  jsonBody |-> [id |-> entity.rowKey,
                                name |-> entity.name,
                                title |-> OrElse(entity.title, <<>>),
                                company |-> OrElse(entity.company, <<>>),
                                bio |-> OrElse(entity.bio, <<>>),
                                headshotFile |-> OrElse(entity.headshotFile, <<>>),
                                linkedin |-> OrElse(entity.linkedin, <<>>),
                                twitter |-> OrElse(entity.twitter, <<>>),
                                sessionIds |-> JSONparse(entity.sessionIds)]]

\* the storage calls of extractSpeakers: the scan of the speakers, the scan of
\* the sessions, then one write per extracted name
extractCalls(extracted, existingSpeakers) ==
    <<"listEntities", "listEntities">>
        \o [k \in DOMAIN extracted |->
               IF extracted[k].lowerName \in DOMAIN existingSpeakers
               THEN "updateEntity" ELSE "createEntity"]

\* extractSpeakers when its at-th storage call throws: the writes before that
\* call were made, none after it is
extractSpeakersUntil(sessions, existingSpeakers, sp, n, at) ==
    LET extracted == extractedSpeakers(sessions)
        written == IF at \in 1..(Len(extracted) + 2)
                   THEN SubSeq(extracted, 1, IF at > 2 THEN at - 3 ELSE 0)
                   ELSE extracted
    IN  CHOOSE out \in {extractFrom([sp |-> sp, n |-> n, status |-> 200, created |-> 0,
                                     updated |-> 0, speakers |-> <<>>, replaced |-> <<>>],
                                    existingSpeakers, w, 1) : w \in {written}} : TRUE

\* bodies of PUT /api/schedule/{id} in a run with faults
FaultyUpdateBodies == {[title |-> <<"Talk", SPACE, "2">>], [startTime |-> T3, duration |-> 30]}

FaultFrame == UNCHANGED <<x, csv, fields, phase, procs, writeLog>>

Answered(op, id, body, before, fault, r) ==
    [Served(op, id, body, <<>>, before, r.status, 0, 0, <<>>)
        EXCEPT !.jsonBody = r.jsonBody, !.calls = r.calls, !.fault = fault,
               !.thrown = r.thrown]

\* GET /api/schedule
GetScheduleFaulty ==
    /\ ops < MaxFaultOps
    /\ \E fault \in Faults, schedule \in getSchedule(table) :
          \E r \in {tryStorageCalls(<<"listEntities">>, fault, "Failed to fetch schedule",
                                    [status |-> 200, jsonBody |-> NoBody])} :
              last' = [Answered("list", <<>>, NoBody, table, fault, r)
                          EXCEPT !.items = IF r.failed THEN <<>> ELSE schedule]
    /\ ops' = ops + 1
    /\ UNCHANGED <<table, speakers, nextId>>
    /\ FaultFrame

\* GET /api/schedule?format=csv
ExportScheduleFaulty ==
    /\ ops < MaxFaultOps
    /\ \E fault \in Faults, text \in ExportTexts(table) :
          \E r \in {tryStorageCalls(<<"listEntities">>, fault, "Failed to export schedule",
                                    [status |-> 200, jsonBody |-> NoBody])} :
              last' = [Answered("export", <<>>, NoBody, table, fault, r)
                          EXCEPT !.text = IF r.failed THEN <<>> ELSE text]
    /\ ops' = ops + 1
    /\ UNCHANGED <<table, speakers, nextId>>
    /\ FaultFrame

\* POST /api/schedule
AddScheduleItemFaulty ==
    /\ ops < MaxFaultOps
    /\ \E fault \in Faults, body \in SpeakerSessionBodies :
          \E done \in {addScheduleItem(table, nextId, body)} :
              \E r \in {tryStorageCalls(<<"createEntity">>, fault,
                                        "Failed to add schedule item", done)} :
                  /\ table' = IF r.failed THEN table ELSE done.t
                  /\ last' = Answered("create", done.id, body, table, fault, r)
    /\ nextId' = nextId + 1
    /\ ops' = ops + 1
    /\ UNCHANGED speakers
    /\ FaultFrame

\* PUT /api/schedule/{id}
UpdateScheduleItemFaulty ==
    /\ ops < MaxFaultOps
    /\ \E fault \in Faults, id \in RowKeys(table) \cup {MissingId}, body \in FaultyUpdateBodies :
          \E done \in {updateScheduleItem(table, id, body)} :
              \E r \in {tryStorageCalls(scanAndWrite(table, id, "updateEntity"), fault,
                                        "Failed to update schedule item",
                                        [status |-> done.status, jsonBody |-> NoBody])} :
                  /\ table' = IF r.failed THEN table ELSE done.t
                  /\ last' = Answered("update", id, body, table, fault, r)
    /\ ops' = ops + 1
    /\ UNCHANGED <<speakers, nextId>>
    /\ FaultFrame

\* DELETE /api/schedule/{id}
DeleteScheduleItemFaulty ==
    /\ ops < MaxFaultOps
    /\ \E fault \in Faults, id \in RowKeys(table) \cup {MissingId} :
          \E done \in {deleteScheduleItem(table, id)} :
              \E r \in {tryStorageCalls(scanAndWrite(table, id, "deleteEntity"), fault,
                                        "Failed to delete schedule item",
                                        [status |-> done.status, jsonBody |-> NoBody])} :
                  /\ table' = IF r.failed THEN table ELSE done.t
                  /\ last' = Answered("delete", id, NoBody, table, fault, r)
    /\ ops' = ops + 1
    /\ UNCHANGED <<speakers, nextId>>
    /\ FaultFrame

\* GET /api/speakers/{id}
GetSpeakerFaulty ==
    /\ ops < MaxFaultOps
    /\ \E fault \in Faults, id \in RowKeys(speakers) \cup {MissingSpeakerId} :
          \E r \in {tryStorageCalls(<<"listEntities">>, fault, "Failed to fetch speaker",
                                    getSpeaker(speakers, id))} :
              last' = Answered("getSpeaker", id, NoBody, speakers, fault, r)
    /\ ops' = ops + 1
    /\ UNCHANGED <<table, speakers, nextId>>
    /\ FaultFrame

\* POST /api/speakers
AddSpeakerFaulty ==
    /\ ops < MaxFaultOps
    /\ \E fault \in Faults, body \in {b \in SpeakerBodies : "name" \in DOMAIN b} :
          \E done \in {addSpeaker(speakers, nextId, body)} :
              \E r \in {tryStorageCalls(<<"createEntity">>, fault, "Failed to create speaker",
                                        [status |-> done.status, jsonBody |-> NoBody])} :
                  /\ speakers' = IF r.failed THEN speakers ELSE done.sp
                  /\ last' = Answered("addSpeaker", done.id, body, speakers, fault, r)
    /\ nextId' = nextId + 1
    /\ ops' = ops + 1
    /\ UNCHANGED table
    /\ FaultFrame

\* PUT /api/speakers/{id}
UpdateSpeakerFaulty ==
    /\ ops < MaxFaultOps
    /\ \E fault \in Faults, id \in RowKeys(speakers) \cup {MissingSpeakerId},
          body \in SpeakerUpdateBodies :
          \E done \in {updateSpeaker(speakers, id, body)} :
              \E r \in {tryStorageCalls(scanAndWrite(speakers, id, "updateEntity"), fault,
                                        "Failed to update speaker",
                                        [status |-> done.status, jsonBody |-> NoBody])} :
                  /\ speakers' = IF r.failed THEN speakers ELSE done.sp
                  /\ last' = Answered("updateSpeaker", id, body, speakers, fault, r)
    /\ ops' = ops + 1
    /\ UNCHANGED <<table, nextId>>
    /\ FaultFrame

\* DELETE /api/speakers/{id}
DeleteSpeakerFaulty ==
    /\ ops < MaxFaultOps
    /\ \E fault \in Faults, id \in RowKeys(speakers) \cup {MissingSpeakerId} :
          \E done \in {deleteSpeaker(speakers, id)} :
              \E r \in {tryStorageCalls(scanAndWrite(speakers, id, "deleteEntity"), fault,
                                        "Failed to delete speaker",
                                        [status |-> done.status, jsonBody |-> NoBody])} :
                  /\ speakers' = IF r.failed THEN speakers ELSE done.sp
                  /\ last' = Answered("deleteSpeaker", id, NoBody, speakers, fault, r)
    /\ ops' = ops + 1
    /\ UNCHANGED <<table, nextId>>
    /\ FaultFrame

\* POST /api/speakers/extract
ExtractSpeakersFaulty ==
    /\ ops < MaxFaultOps
    /\ \E fault \in Faults, sessions \in ScanOrders(table),
          existingSpeakers \in ExistingSpeakerMaps(speakers) :
          \E done \in {extractSpeakersUntil(sessions, existingSpeakers, speakers, nextId,
                                            fault.at)} :
              \E r \in {tryStorageCalls(extractCalls(extractedSpeakers(sessions),
                                                     existingSpeakers),
                                        fault, "Failed to extract speakers",
                                        [status |-> done.status,
                                         jsonBody |-> [speakers |-> done.speakers]])} :
                  /\ speakers' = done.sp
                  /\ nextId' = done.n
                  /\ last' = [Answered("extract", <<>>, NoBody, speakers, fault, r)
                                 EXCEPT !.created = done.created, !.updated = done.updated,
                                        !.items = done.replaced]
    /\ ops' = ops + 1
    /\ UNCHANGED table
    /\ FaultFrame

NextFaulty ==
    \/ GetScheduleFaulty
    \/ ExportScheduleFaulty
    \/ AddScheduleItemFaulty
    \/ UpdateScheduleItemFaulty
    \/ DeleteScheduleItemFaulty
    \/ GetSpeakerFaulty
    \/ AddSpeakerFaulty
    \/ UpdateSpeakerFaulty
    \/ DeleteSpeakerFaulty
    \/ ExtractSpeakersFaulty

SpecFaulty == Init /\ [][NextFaulty]_vars

(***************************************************************************)
(* Claims about storage faults (checked under SpecFaulty)                  *)
(***************************************************************************)
FaultHit == last.fault.at \in DOMAIN last.calls

\* C20: when a storage call of a handler (list, create, update, delete,
\* export, speaker CRUD, extraction) throws, the handler answers 500 with the
\* message of the error in the body and does not throw to its caller; the call
\* that threw is the last storage call it made, so that call is made once and
\* its write is not applied.
C20_StorageFaultIs500 ==
    FaultHit =>
        /\ last.status = 500
        /\ "details" \in DOMAIN last.jsonBody
        /\ last.jsonBody.details = last.fault.message
        /\ ~last.thrown
        /\ Len(last.calls) = last.fault.at
        /\ last.op \in {"list", "export", "create", "update", "delete"} => table = last.before
        /\ last.op \in {"getSpeaker", "addSpeaker", "updateSpeaker", "deleteSpeaker"}
              => speakers = last.before
        /\ last.op = "extract"
              => IF last.fault.at <= 3 THEN speakers = last.before
                 ELSE Cardinality({e \in speakers : e \notin last.before}) <= last.fault.at - 3

\* C20 witness: the write of an update threw after its scan had found the row
C20_Witness ==
    /\ FaultHit
    /\ last.op = "update"
    /\ last.calls = <<"listEntities", "updateEntity">>
    /\ last.id \in RowKeys(table)

\* the second write of an extraction threw after the first was applied
C20_ExtractWitness ==
    /\ FaultHit
    /\ last.op = "extract"
    /\ last.fault.at = 4
    /\ speakers # last.before

====
